---- MODULE Spec2Model ----
(***************************************************************************)
(* NextStep.AI: the prep-report normaliser (utils/prep_generator.py) and   *)
(* the answer evaluation paths (utils/evaluation.py, app.py).              *)
(*                                                                         *)
(* Representation.  A Python str is a sequence of lexemes; a lexeme is a   *)
(* literal fragment of text written as a TLA+ string.  The emoji of the    *)
(* STAR labels are written {R} (red circle), {B} (blue), {G} (green) and   *)
(* {P} (purple).  The label "{R}Situation:" is the two lexemes "{R}Situ"   *)
(* and "ation:", so that text around a removed token can join into it; no  *)
(* other lexeme sequence spells a label.  A JSON / Python value is a       *)
(* record tagged by its type.                                              *)
(***************************************************************************)
EXTENDS Integers, Sequences, FiniteSets, TLC

VARIABLES
    pc,        \* position of the generate_prep_report call
    args,      \* its arguments
    upstream,  \* what the document-generation call produced
    result,    \* the report it returned
    again,     \* the two normalisation steps applied to the returned report
    served,    \* what /custom_prep rendered and stored for the returned report
    epc,       \* position of the /answer request
    ereq,      \* its form: the answer text, the question id
    eup,       \* what the rubric call produced
    eresp,     \* the response of the /answer request
    esaved,    \* the Answer row the request stored
    elocal,    \* the record of a direct evaluate_answer call
    singleton, \* the module globals _sentence_model and _sentiment_pipeline
    built,     \* how many times each underlying model was constructed
    thr,       \* the threads calling get_sentence_model / get_sentiment_pipeline
    apc,       \* position of the /audio request
    areq,      \* its form: the file, the question id
    atext,     \* the transcript of the uploaded audio
    aup,       \* what the rubric call of the /audio request produced
    aresp,     \* the response of the /audio request
    asaved,    \* the Answer row the /audio request stored
    atmp,      \* the temporary file of the /audio request
    qpc,       \* position of the prompt construction of gpt_evaluate_answer
    qin,       \* the lengths, in characters, of its three input texts
    qprompt,   \* the lengths of the three texts inside the prompt it sends
    msession,  \* the session of the mock interview: its user and its mock_* keys
    mreq,      \* the last mock-interview request
    mresp,     \* its response
    mcalls,    \* the calls of generate_mock_interview_question it made
    msaved,    \* the Answer row it stored
    mtmp,      \* its temporary audio file
    mserved,   \* how many mock-interview requests were served
    used_question_ids, \* session["used_question_ids"]
    nresp,     \* the response of the last /next_question request
    nlog,      \* the ids of the questions /next_question returned, in order
    sday,      \* the date, as a day number
    slate,     \* whether the clock of that day is at or after 20:00
    suser,     \* the users row: streak_count, longest_streak
    srows,     \* the streak_history rows of the user: how many "kept" rows each date has
    scall,     \* the update_streak_for_user calls in progress: position and locals
    answers,   \* the answers table: the id and the user_id of each row, ids in order of created_at
    inserted,  \* every row the table was given, the deleted ones included
    lastsave,  \* what the last save_answer_to_db call did
    reports,   \* the prep_reports and resume_reports rows
    rsession,  \* session["user_id"] of the browser that asks for saved reports
    rreq,      \* its last request for a saved report
    rresp,     \* the response to it
    jreq,      \* the form of the /job_audio request
    jresp,     \* its response
    jtmp       \* its temporary audio file

vars == <<pc, args, upstream, result, again, served, epc, ereq, eup, eresp, esaved, elocal,
          singleton, built, thr, apc, areq, atext, aup, aresp, asaved, atmp,
          qpc, qin, qprompt,
          msession, mreq, mresp, mcalls, msaved, mtmp, mserved,
          used_question_ids, nresp, nlog,
          sday, slate, suser, srows, scall,
          answers, inserted, lastsave,
          reports, rsession, rreq, rresp,
          jreq, jresp, jtmp>>
loadVars == <<singleton, built, thr>>
audioVars == <<apc, areq, atext, aup, aresp, asaved, atmp>>
prepVars == <<pc, args, upstream, result, again, served>>
evalVars == <<epc, ereq, eup, eresp, esaved, elocal>>
promptVars == <<qpc, qin, qprompt>>
mockVars == <<msession, mreq, mresp, mcalls, msaved, mtmp, mserved>>
bankVars == <<used_question_ids, nresp, nlog>>
streakVars == <<sday, slate, suser, srows, scall>>
rowVars == <<answers, inserted, lastsave>>
reportVars == <<reports, rsession, rreq, rresp>>
jobVars == <<jreq, jresp, jtmp>>
\* what the steps of one component leave alone
notPrep == <<evalVars, loadVars, audioVars, promptVars, mockVars, bankVars, streakVars, rowVars, reportVars, jobVars>>
notEval == <<prepVars, loadVars, audioVars, promptVars, mockVars, bankVars, streakVars, rowVars, reportVars, jobVars>>
notLoad == <<prepVars, evalVars, audioVars, promptVars, mockVars, bankVars, streakVars, rowVars, reportVars, jobVars>>
notAudio == <<prepVars, evalVars, loadVars, promptVars, mockVars, bankVars, streakVars, rowVars, reportVars, jobVars>>
notPrompt == <<prepVars, evalVars, loadVars, audioVars, mockVars, bankVars, streakVars, rowVars, reportVars, jobVars>>
notMock == <<prepVars, evalVars, loadVars, audioVars, promptVars, bankVars, streakVars, rowVars, reportVars, jobVars>>
notBank == <<prepVars, evalVars, loadVars, audioVars, promptVars, mockVars, streakVars, rowVars, reportVars, jobVars>>
notStreak == <<prepVars, evalVars, loadVars, audioVars, promptVars, mockVars, bankVars, rowVars, reportVars, jobVars>>
notRows == <<prepVars, evalVars, loadVars, audioVars, promptVars, mockVars, bankVars, streakVars, reportVars, jobVars>>
notReports == <<prepVars, evalVars, loadVars, audioVars, promptVars, mockVars, bankVars, streakVars, rowVars, jobVars>>
notJob == <<prepVars, evalVars, loadVars, audioVars, promptVars, mockVars, bankVars, streakVars, rowVars, reportVars>>

-----------------------------------------------------------------------------
(* Python values *)

JNull == [t |-> "null"]
JStr(s) == [t |-> "str", s |-> s]
JNum(n) == [t |-> "num", n |-> n]
JList(l) == [t |-> "list", l |-> l]
JDict(d) == [t |-> "dict", d |-> d]

EmptyDict == JDict(<<>>)
EmptyStr == JStr(<<>>)

IsDict(x) == x.t = "dict"
IsStr(x) == x.t = "str"

\* bool(x)
Truthy(x) ==
    CASE x.t = "null" -> FALSE
      [] x.t = "str" -> x.s # <<>>
      [] x.t = "num" -> x.n # 0
      [] x.t = "list" -> x.l # <<>>
      [] x.t = "dict" -> DOMAIN x.d # {}

\* a or b
Or(a, b) == IF Truthy(a) THEN a ELSE b

\* d.get(k) on a dict
Get(x, k) == IF k \in DOMAIN x.d THEN x.d[k] ELSE JNull

\* d.setdefault(k, v); the dict afterwards
SetDefault(x, k, v) == IF k \in DOMAIN x.d THEN x ELSE JDict((k :> v) @@ x.d)

\* str(x), as a text.  A str is itself; None, numbers and the empty
\* containers print as Python prints them; a non-empty container prints as
\* its repr, one lexeme here.
StrOf(x) ==
    CASE x.t = "str" -> x.s
      [] x.t = "null" -> <<"None">>
      [] x.t = "num" -> <<ToString(x.n)>>
      [] x.t = "list" -> IF x.l = <<>> THEN <<"[]">> ELSE <<"[repr]">>
      [] x.t = "dict" -> IF DOMAIN x.d = {} THEN <<"{}">> ELSE <<"{repr}">>

-----------------------------------------------------------------------------
(* str methods *)

SP == " "

RECURSIVE LStrip(_)
LStrip(s) == IF s # <<>> /\ Head(s) = SP THEN LStrip(Tail(s)) ELSE s

RECURSIVE RStrip(_)
RStrip(s) ==
    IF s # <<>> /\ s[Len(s)] = SP THEN RStrip(SubSeq(s, 1, Len(s) - 1)) ELSE s

\* s.strip()
Strip(s) == LStrip(RStrip(s))

\* the first word of a text that starts with a non-space lexeme
RECURSIVE FirstWord(_)
FirstWord(s) ==
    IF s = <<>> \/ Head(s) = SP THEN <<>> ELSE <<Head(s)>> \o FirstWord(Tail(s))

\* s.split(): the words of s, each a text
RECURSIVE Split(_)
Split(s) ==
    LET r == LStrip(s)
    IN  IF r = <<>> THEN <<>>
        ELSE LET w == FirstWord(r)
             IN  <<w>> \o Split(SubSeq(r, Len(w) + 1, Len(r)))

\* " ".join(words)
RECURSIVE JoinSp(_)
JoinSp(ws) ==
    IF ws = <<>> THEN <<>>
    ELSE IF Len(ws) = 1 THEN ws[1]
    ELSE ws[1] \o <<SP>> \o JoinSp(Tail(ws))

\* s.replace(tok, ""): the occurrences of tok found left to right, without
\* overlap, in one pass
RECURSIVE RemoveAll(_, _)
RemoveAll(s, tok) ==
    IF Len(s) < Len(tok) THEN s
    ELSE IF SubSeq(s, 1, Len(tok)) = tok
         THEN RemoveAll(SubSeq(s, Len(tok) + 1, Len(s)), tok)
         ELSE <<Head(s)>> \o RemoveAll(Tail(s), tok)

\* tok in s
RECURSIVE Contains(_, _)
Contains(s, tok) ==
    /\ Len(s) >= Len(tok)
    /\ \/ SubSeq(s, 1, Len(tok)) = tok
       \/ Contains(Tail(s), tok)

\* c.lower() of one lexeme
LowerLex(c) ==
    CASE c = "High" -> "high"
      [] c = "MEDIUM" -> "medium"
      [] c = "Low" -> "low"
      [] OTHER -> c

\* s.lower()
Lower(s) == [i \in 1..Len(s) |-> LowerLex(s[i])]

-----------------------------------------------------------------------------
(* _normalize_prep_report and its helpers *)

\* as_dict
as_dict(x) == IF IsDict(x) THEN x ELSE EmptyDict

\* as_list that gives the empty list for a value that is not a list
as_list_NoWrap(x) == IF x.t = "list" THEN x.l ELSE <<>>

\* as_list, the list as a sequence of values
as_list(x) ==
    IF x.t = "null" THEN <<>>
    ELSE IF x.t = "list" THEN x.l
    ELSE <<x>>

\* str(x or "").strip()
CleanStr(x) == Strip(StrOf(Or(x, EmptyStr)))

\* _coerce_str_list without the test that drops blank entries
RECURSIVE CoerceKeepBlank(_)
CoerceKeepBlank(items) ==
    IF items = <<>> THEN <<>>
    ELSE LET x == Head(items)
             rest == CoerceKeepBlank(Tail(items))
         IN  IF x.t = "null" THEN rest
             ELSE <<JStr(Strip(StrOf(x)))>> \o rest

\* _coerce_str_list
RECURSIVE _coerce_str_list(_)
_coerce_str_list(items) ==
    IF items = <<>> THEN <<>>
    ELSE LET x == Head(items)
             rest == _coerce_str_list(Tail(items))
         IN  IF x.t = "null" THEN rest
             ELSE LET s == Strip(StrOf(x))
                  IN  IF s # <<>> THEN <<JStr(s)>> \o rest ELSE rest

KeySituation == "{R}Situation"
KeyTask == "{B}Task"
KeyAction == "{G}Action"
KeyResult == "{P}Result"
LegendKeys == {KeySituation, KeyTask, KeyAction, KeyResult}

Confidences == {<<"high">>, <<"medium">>, <<"low">>}

\* the legend with the keys the upstream sent, none added, none dropped
LegendAsSent(legend_in) ==
    JDict([k \in DOMAIN legend_in.d |-> JStr(CleanStr(legend_in.d[k]))])

\* the legend rebuilt with its four keys, from a dict
LegendOf(legend_in) ==
    JDict([k \in LegendKeys |-> JStr(CleanStr(Get(legend_in, k)))])

\* the body of the loop of _normalize_examples_with_legend for one entry:
\* the example as a one-element sequence, or nothing
NormalizeExample(ex) ==
    LET exd == as_dict(ex)
        exp_name == CleanStr(Get(exd, "experience_name"))
        exp_quote == CleanStr(Get(exd, "experience_source_quote"))
        conf0 == Lower(CleanStr(Get(exd, "confidence")))
        conf == IF conf0 \in Confidences THEN conf0 ELSE <<"low">>
        q == CleanStr(Get(exd, "question"))
        a == CleanStr(Get(exd, "answer"))
    IN  IF q # <<>> \/ a # <<>>
        THEN << JDict([experience_name |-> JStr(exp_name),
                       experience_source_quote |-> JStr(exp_quote),
                       confidence |-> JStr(conf),
                       question |-> JStr(q),
                       answer |-> JStr(a),
                       legend |-> LegendOf(as_dict(Get(exd, "legend")))]) >>
        ELSE <<>>

\* _normalize_examples_with_legend
RECURSIVE _normalize_examples_with_legend(_)
_normalize_examples_with_legend(raw) ==
    IF raw = <<>> THEN <<>>
    ELSE NormalizeExample(Head(raw)) \o _normalize_examples_with_legend(Tail(raw))

\* the loop over fit["best_projects"]
RECURSIVE BestProjects(_)
BestProjects(raw) ==
    IF raw = <<>> THEN <<>>
    ELSE LET pd == as_dict(Head(raw))
             title == CleanStr(Get(pd, "title"))
             summary == CleanStr(Get(pd, "summary"))
             rest == BestProjects(Tail(raw))
         IN  IF title # <<>> \/ summary # <<>>
             THEN << JDict([title |-> JStr(IF title # <<>> THEN title
                                           ELSE <<"Project highlight">>),
                            summary |-> JStr(summary)]) >> \o rest
             ELSE rest

\* _coerce_str_list(as_list(section.get(key))), as a list value
Bullets(section, key) == JList(_coerce_str_list(as_list(Get(section, key))))

KnowKeys ==
    {"mission_values", "culture_snapshot", "recent_projects_news",
     "competitors_industry_trends"}
ImproveKeys == {"skill_gaps", "soft_skills", "learning_focus"}
ImpressKeys ==
    {"team_culture", "impact_growth", "technical_depth", "company_direction",
     "next_steps"}

\* _normalize_prep_report(data, candidate_name, fallback_mode), data a dict
_normalize_prep_report(data, candidate_name, fallback_mode) ==
    LET know == as_dict(Get(data, "know_all_about_them"))
        fit == as_dict(Get(data, "perfect_fit_map"))
        beh == as_dict(Get(data, "behavioral_practice"))
        tech == as_dict(Get(data, "technical_prep"))
        imp == as_dict(Get(data, "improvement_zone"))
        itm == as_dict(Get(data, "impress_them_back"))
        mode0 == Strip(StrOf(Or(Get(data, "mode"), fallback_mode)))
        mode == IF mode0 # <<>> THEN JStr(mode0) ELSE fallback_mode
        note == CleanStr(Get(data, "debug_note"))
    IN  JDict([
          mode |-> mode,
          candidate_name |-> Or(Get(data, "candidate_name"), candidate_name),
          know_all_about_them |-> JDict([k \in KnowKeys |-> Bullets(know, k)]),
          perfect_fit_map |-> JDict([
              top_strengths |-> Bullets(fit, "top_strengths"),
              best_projects |-> JList(BestProjects(as_list(Get(fit, "best_projects"))))]),
          behavioral_practice |-> JDict([
              questions |-> Bullets(beh, "questions"),
              example_answers |->
                  JList(_normalize_examples_with_legend(as_list(Get(beh, "example_answers"))))]),
          technical_prep |-> JDict([
              questions |-> Bullets(tech, "questions"),
              example_answers |->
                  JList(_normalize_examples_with_legend(as_list(Get(tech, "example_answers")))),
              key_concepts |-> Bullets(tech, "key_concepts"),
              red_flags |-> Bullets(tech, "red_flags")]),
          improvement_zone |-> JDict([k \in ImproveKeys |-> Bullets(imp, k)]),
          impress_them_back |-> JDict([k \in ImpressKeys |-> Bullets(itm, k)]),
          debug_note |-> IF note # <<>> THEN JStr(note) ELSE JNull])

-----------------------------------------------------------------------------
(* _enforce_exact_qna_counts and its helpers *)

QnaCount == 6

default_beh_q == <<
    JStr(<<"Describe a time you took full ownership of a challenging project.">>),
    JStr(<<"Tell me about a time you dealt with ambiguity.">>),
    JStr(<<"Describe a time you had to learn a new technology quickly.">>),
    JStr(<<"Tell me about a time you received critical feedback and how you handled it.">>),
    JStr(<<"Give an example of a time you collaborated with cross-functional teams.">>),
    JStr(<<"How have you contributed to improving team processes or code quality?">>) >>

default_tech_q == <<
    JStr(<<"Explain how you would build a scalable backend service for processing healthcare data.">>),
    JStr(<<"How would you design an API to support high traffic while staying reliable?">>),
    JStr(<<"How do you approach database schema design and query performance optimization?">>),
    JStr(<<"How would you add observability (logs, metrics, tracing) to a production service?">>),
    JStr(<<"How do you ensure code is maintainable and testable as the system grows?">>),
    JStr(<<"How would you debug a production incident with limited information?">>) >>

\* qs[:6], the bank forgotten
ForceSixNoTopUp(qs, bank) ==
    SubSeq(qs, 1, IF Len(qs) < QnaCount THEN Len(qs) ELSE QnaCount)

\* (bank + qs)[:6], the bank ahead of the upstream questions
ForceSixBankFirst(qs, bank) ==
    LET all == bank \o qs IN SubSeq(all, 1, IF Len(all) < QnaCount THEN Len(all) ELSE QnaCount)

\* (qs + bank)[:6]
ForceSix(qs, bank) ==
    LET all == qs \o bank IN SubSeq(all, 1, IF Len(all) < QnaCount THEN Len(all) ELSE QnaCount)

\* index_by_question keeping the first entry of a question, not the last
RECURSIVE IndexFirstWins(_)
IndexFirstWins(items) ==
    IF items = <<>> THEN <<>>
    ELSE LET it == Head(items)
             out == IndexFirstWins(Tail(items))
         IN  IF IsDict(it)
             THEN LET qq == CleanStr(Get(it, "question"))
                  IN  IF qq # <<>> THEN (JStr(qq) :> it) @@ out ELSE out
             ELSE out

\* index_by_question: the dict from question to item, a later item replacing
\* an earlier one with the same question
RECURSIVE index_by_question(_)
index_by_question(items) ==
    IF items = <<>> THEN <<>>
    ELSE LET it == items[Len(items)]
             out == index_by_question(SubSeq(items, 1, Len(items) - 1))
         IN  IF IsDict(it)
             THEN LET qq == CleanStr(Get(it, "question"))
                  IN  IF qq # <<>> THEN (JStr(qq) :> it) @@ out ELSE out
             ELSE out

TokSituation == <<"{R}Situ", "ation:">>
TokTask == <<"{B}Task:">>
TokAction == <<"{G}Action:">>
TokResult == <<"{P}Result:">>
StarTokens == <<TokSituation, TokTask, TokAction, TokResult>>

\* the for loop of scrub_answer over the tokens from the i-th on
RECURSIVE ScrubFrom(_, _)
ScrubFrom(text, i) ==
    IF i > Len(StarTokens) THEN text
    ELSE ScrubFrom(Strip(RemoveAll(text, StarTokens[i])), i + 1)

\* scrub_answer
scrub_answer(text) ==
    IF text = <<>> THEN text
    ELSE JoinSp(Split(ScrubFrom(text, 1)))

TechFallbackAnswer == <<
    "To handle this, I would start by clarifying requirements and constraints, then design a modular service",
    SP,
    "with clear API boundaries, efficient data access patterns, and a safe processing pipeline. I would add",
    SP,
    "validation, batching where appropriate, and caching for hot reads, then layer in observability and tests",
    SP,
    "to make it reliable under load. Finally, I would roll it out gradually and track metrics like latency,",
    SP,
    "error rate, throughput, and cost so the system can scale predictably." >>

BehFallbackAnswer == <<
    "In a challenging project, I take ownership by clarifying the goal, breaking the work into milestones,",
    SP,
    "communicating early with stakeholders, and delivering in small increments with tests. If something is unclear,",
    SP,
    "I propose a direction, validate it quickly, and adjust based on feedback so progress never stalls. The outcome",
    SP,
    "is usually faster delivery with fewer surprises and stronger trust from the team." >>

TechFallbackLegend ==
    JDict((KeySituation :> JStr(<<"A production service must process growing volumes of sensitive data with strict reliability needs.">>))
       @@ (KeyTask :> JStr(<<"Design for scalability, correctness, and maintainability.">>))
       @@ (KeyAction :> JStr(<<"Use modular APIs, efficient queries, batching/queues where needed, caching, and strong observability/testing.">>))
       @@ (KeyResult :> JStr(<<"A service that scales with predictable performance and measurable reliability.">>)))

BehFallbackLegend ==
    JDict((KeySituation :> JStr(<<"A high impact project with constraints like time, complexity, and changing requirements.">>))
       @@ (KeyTask :> JStr(<<"Own the work end to end and keep delivery on track.">>))
       @@ (KeyAction :> JStr(<<"Plan milestones, communicate proactively, ship iteratively with quality checks.">>))
       @@ (KeyResult :> JStr(<<"Delivered outcomes with fewer issues and clearer stakeholder alignment.">>)))

\* make_fallback_answer
make_fallback_answer(q, is_tech) ==
    JDict([experience_name |-> EmptyStr,
           experience_source_quote |-> EmptyStr,
           confidence |-> JStr(<<"low">>),
           question |-> q,
           answer |-> JStr(IF is_tech THEN TechFallbackAnswer ELSE BehFallbackAnswer),
           legend |-> IF is_tech THEN TechFallbackLegend ELSE BehFallbackLegend])

\* the else branch of the answer loops: the matched example aligned to q
AlignExample(ex0, q) ==
    LET ex1 == JDict(("question" :> q)
                  @@ ("answer" :> JStr(scrub_answer(StrOf(Or(Get(ex0, "answer"), EmptyStr)))))
                  @@ ex0.d)
        ex2 == SetDefault(SetDefault(ex1, "experience_name", EmptyStr),
                          "experience_source_quote", EmptyStr)
        conf == Strip(Lower(StrOf(Or(Get(ex2, "confidence"), EmptyStr))))
        ex3 == JDict(("confidence" :> JStr(IF conf \in Confidences THEN conf ELSE <<"low">>))
                  @@ ex2.d)
        ex4 == SetDefault(ex3, "legend", EmptyDict)
    IN  JDict(("legend" :> LegendOf(ex4.d["legend"])) @@ ex4.d)

\* the body of the answer loops for one question
AnswerFor(map, q, is_tech) ==
    IF q \in DOMAIN map /\ Truthy(map[q])
    THEN AlignExample(map[q], q)
    ELSE make_fallback_answer(q, is_tech)

\* the questions forced to 6, the example answers left as they came
EnforceSectionKeepAnswers(sec, bank, is_tech) ==
    LET qs == ForceSix(Or(Get(sec, "questions"), JList(<<>>)).l, bank)
    IN  JDict(("questions" :> JList(qs))
           @@ ("example_answers" :> Or(Get(sec, "example_answers"), JList(<<>>)))
           @@ sec.d)

\* the two Q/A keys of a section after _enforce_exact_qna_counts
EnforceSection(sec, bank, is_tech) ==
    LET qs == ForceSix(Or(Get(sec, "questions"), JList(<<>>)).l, bank)
        map == index_by_question(Or(Get(sec, "example_answers"), JList(<<>>)).l)
    IN  JDict(("questions" :> JList(qs))
           @@ ("example_answers" :>
                  JList([i \in 1..Len(qs) |-> AnswerFor(map, qs[i], is_tech)]))
           @@ sec.d)

\* _enforce_exact_qna_counts
_enforce_exact_qna_counts(report) ==
    LET r == SetDefault(SetDefault(report, "behavioral_practice", EmptyDict),
                        "technical_prep", EmptyDict)
    IN  JDict(("behavioral_practice" :>
                  EnforceSection(r.d["behavioral_practice"], default_beh_q, FALSE))
           @@ ("technical_prep" :>
                  EnforceSection(r.d["technical_prep"], default_tech_q, TRUE))
           @@ r.d)

-----------------------------------------------------------------------------
(* _local_fallback_prep_report, _error_report *)

EmptyList == JList(<<>>)
One(text) == JList(<<JStr(<<text>>)>>)

\* "role_and_company" if (company_name and (job_description or "").strip())
\* else "role_focused"
ModeHint(company_name, job_description) ==
    IF Truthy(company_name) /\ Strip(Or(job_description, EmptyStr).s) # <<>>
    THEN JStr(<<"role_and_company">>)
    ELSE JStr(<<"role_focused">>)

EmptyQna == JDict([questions |-> EmptyList, example_answers |-> EmptyList])

EmptyTech ==
    JDict([questions |-> EmptyList, example_answers |-> EmptyList,
           key_concepts |-> EmptyList, red_flags |-> EmptyList])

\* _local_fallback_prep_report
_local_fallback_prep_report(job_title, company_name, job_description, candidate_name) ==
    JDict([
      mode |-> ModeHint(company_name, job_description),
      candidate_name |-> candidate_name,
      debug_note |-> JStr(<<"Offline mode: using a basic template report.">>),
      know_all_about_them |-> JDict([
          mission_values |-> One("Mirror the company mission language in your intro and closing."),
          culture_snapshot |-> One("Bring one story that shows ownership and one that shows collaboration."),
          recent_projects_news |-> One("Reference 1 or 2 recent product updates and explain why they matter."),
          competitors_industry_trends |-> One("Know 2 competitors and a clear differentiation for each.")]),
      perfect_fit_map |-> JDict([
          top_strengths |-> JList(<<JStr(<<"Ownership">>), JStr(<<"Full stack delivery">>)>>),
          best_projects |-> EmptyList]),
      behavioral_practice |-> EmptyQna,
      technical_prep |-> EmptyTech,
      improvement_zone |-> JDict([k \in ImproveKeys |-> EmptyList]),
      impress_them_back |-> JDict([k \in ImpressKeys |-> EmptyList])])

\* _error_report
_error_report(message, candidate_name, company_name, job_title) ==
    LET company_label == Or(company_name, JStr(<<"the company">>))
    IN  JDict([
          mode |-> JStr(<<"role_focused">>),
          candidate_name |-> candidate_name,
          debug_note |-> JStr(message),
          know_all_about_them |-> JDict([
              mission_values |-> JList(<<JStr(<<"Unable to generate company insights for ">>
                                              \o company_label.s \o <<".">>)>>),
              culture_snapshot |-> EmptyList,
              recent_projects_news |-> EmptyList,
              competitors_industry_trends |-> EmptyList]),
          perfect_fit_map |-> JDict([top_strengths |-> EmptyList, best_projects |-> EmptyList]),
          behavioral_practice |-> EmptyQna,
          technical_prep |-> EmptyTech,
          improvement_zone |-> JDict([k \in ImproveKeys |-> EmptyList]),
          impress_them_back |-> JDict([k \in ImpressKeys |-> EmptyList])])

-----------------------------------------------------------------------------
(* generate_prep_report *)

\* The content of an upstream message: None, a text that is not JSON, or a
\* text that is the JSON of value v.
JsonText(v) == [t |-> "json", v |-> v]
NotJson == JStr(<<"Sorry, I cannot help with that.">>)

\* json.loads(content or "{}"): the value, or the error raised
json_loads_or_braces(content) ==
    CASE content.t = "json" -> [ok |-> TRUE, v |-> content.v]
      [] content.t = "null" -> [ok |-> TRUE, v |-> EmptyDict]
      [] content = EmptyStr -> [ok |-> TRUE, v |-> EmptyDict]
      [] OTHER -> [ok |-> FALSE, err |-> "Expecting value: line 1 column 1 (char 0)"]

\* the except branch without its call of _enforce_exact_qna_counts
ExceptBranchNoEnforce(a, e) ==
    LET fallback == _local_fallback_prep_report(a.job_title, a.company_name,
                                                a.job_description, a.candidate_name)
    IN  JDict(("debug_note" :>
                  JStr(<<"GPT generation failed, fallback mode used. Error: ", e>>))
              @@ fallback.d)

\* lines 199-208: the except branch, e the exception's text
ExceptBranch(a, e) ==
    LET fallback == _local_fallback_prep_report(a.job_title, a.company_name,
                                                a.job_description, a.candidate_name)
        noted == JDict(("debug_note" :>
                          JStr(<<"GPT generation failed, fallback mode used. Error: ", e>>))
                       @@ fallback.d)
    IN  _enforce_exact_qna_counts(noted)

\* lines 187-197 with no except branch: what raises leaves the call
AfterUpstreamNoCatch(a, content) ==
    LET parsed == json_loads_or_braces(content)
    IN  IF ~parsed.ok \/ ~IsDict(parsed.v) THEN [path |-> "raised", report |-> JNull]
        ELSE [path |-> "gpt",
              report |-> _enforce_exact_qna_counts(
                             _normalize_prep_report(parsed.v, a.candidate_name,
                                                    ModeHint(a.company_name, a.job_description)))]

\* lines 187-197, then 199-208 when one of them raises
AfterUpstream(a, content) ==
    LET parsed == json_loads_or_braces(content)
    IN  IF ~parsed.ok THEN [path |-> "except", report |-> ExceptBranch(a, parsed.err)]
        ELSE IF ~IsDict(parsed.v)
        THEN [path |-> "except",
              report |-> ExceptBranch(a, "object has no attribute 'get'")]
        ELSE [path |-> "gpt",
              report |-> _enforce_exact_qna_counts(
                             _normalize_prep_report(parsed.v, a.candidate_name,
                                                    ModeHint(a.company_name, a.job_description)))]

\* handle_unexpected_error, for an exception that is no HTTPException
InternalServerError == [status |-> 500, body |-> "Internal server error"]

NoResult == [path |-> "none", report |-> JNull]
NoUpstream == [kind |-> "none"]

\* generate_prep_report up to the upstream call (lines 35-57)
Call(a) ==
    /\ pc = "idle"
    /\ epc = "idle"
    /\ apc = "idle"
    /\ args' = a
    /\ IF Strip(Or(a.job_title, EmptyStr).s) = <<>>
       THEN /\ result' = [path |-> "error",
                          report |-> _error_report(<<"Missing required input: job_title">>,
                                                   a.candidate_name, a.company_name,
                                                   JStr(Strip(Or(a.job_title, EmptyStr).s)))]
            /\ pc' = "returned"
       ELSE IF ~a.use_gpt
       THEN /\ result' = [path |-> "offline",
                          report |-> _local_fallback_prep_report(
                                         JStr(Strip(a.job_title.s)), a.company_name,
                                         a.job_description, a.candidate_name)]
            /\ pc' = "returned"
       ELSE /\ result' = NoResult
            /\ pc' = "awaiting"
    /\ UNCHANGED <<upstream, again, served, notPrep>>

\* OpenAI() or client.chat.completions.create raises
ClientRaises(e) ==
    /\ pc = "awaiting"
    /\ upstream' = [kind |-> "raise", err |-> e]
    /\ result' = [path |-> "except", report |-> ExceptBranch(args, e)]
    /\ pc' = "returned"
    /\ UNCHANGED <<args, again, served, notPrep>>

\* client.chat.completions.create returns a message
ClientReturns(content) ==
    /\ pc = "awaiting"
    /\ upstream' = [kind |-> "content", content |-> content]
    /\ result' = AfterUpstream(args, content)
    /\ pc' = "returned"
    /\ UNCHANGED <<args, again, served, notPrep>>

\* the two normalisation steps applied to the report the call returned
Renormalize ==
    /\ pc = "returned"
    /\ result.path = "gpt"
    /\ again' = _enforce_exact_qna_counts(
                    _normalize_prep_report(result.report, args.candidate_name,
                                           ModeHint(args.company_name, args.job_description)))
    /\ pc' = "renormalized"
    /\ UNCHANGED <<args, upstream, result, served, notPrep>>

\* the PrepReport row with a commit that raises and no except around it
StorePrepReportNoExcept(report, commit_ok) ==
    [raised |-> ~commit_ok, stored |-> IF commit_ok THEN report ELSE JNull]

\* custom_prep lines 1053-1070: the PrepReport row added and committed, an
\* exception of which is answered by a rollback
StorePrepReport(report, commit_ok) ==
    [raised |-> FALSE, stored |-> IF commit_ok THEN report ELSE JNull]

\* custom_prep after its call of generate_prep_report (lines 1050-1076), for
\* a call with the arguments custom_prep passes; the commit of the PrepReport
\* row succeeds or not
CustomPrepFinish(commit_ok) ==
    /\ pc = "returned"
    /\ args.use_gpt
    /\ args.candidate_name = JNull
    /\ IsStr(args.job_title)
    /\ args.job_title.s = Strip(args.job_title.s)
    /\ \A v \in {args.company_name, args.job_description} :
          IF v = JNull THEN TRUE ELSE v.s # <<>> /\ v.s = Strip(v.s)
    /\ IF Truthy(Get(result.report, "error"))
       THEN served' = [status |-> 200, report |-> result.report,
                       error |-> Get(result.report, "error"), stored |-> JNull]
       ELSE LET st == StorePrepReport(result.report, commit_ok)
            IN  IF st.raised THEN served' = InternalServerError @@ [stored |-> JNull]
                ELSE served' = [status |-> 200, report |-> result.report, error |-> JNull,
                                stored |-> st.stored]
    /\ pc' = "served"
    /\ UNCHANGED <<args, upstream, result, again, notPrep>>

-----------------------------------------------------------------------------
(* The inputs: arguments, upstream outcomes, upstream documents *)

MaxQuestions == 9
MaxDirtyLen == 2
MaxAnswerLen == 3
MaxBullets == 3

\* company_name, job_description, candidate_name
Contexts ==
    {<<JNull, JNull, JNull>>,
     <<JNull, JStr(<<"Build APIs">>), JStr(<<"Bob">>)>>,
     <<JStr(<<"Acme">>), JStr(<<SP>>), JNull>>,
     <<JStr(<<"Acme">>), JStr(<<"Build APIs">>), JStr(<<"Bob">>)>>}

PrepArgs ==
    {[job_title |-> jt, company_name |-> c[1], job_description |-> c[2],
      candidate_name |-> c[3], use_gpt |-> g] :
        jt \in {JNull, JStr(<<SP>>), JStr(<<"Backend Engineer">>)},
        c \in Contexts,
        g \in BOOLEAN}

ClientErrors == {"Request timed out.", "Connection error."}

\* all sequences over S of length at most n
SeqsUpTo(S, n) == UNION {[1..k -> S] : k \in 0..n}

QText(i) == JStr(<<"Q" \o ToString(i)>>)
AText(i) == JStr(<<"Answer", SP, ToString(i)>>)

\* an upstream example answer with only a question and an answer
Ex(q, a) == JDict([question |-> q, answer |-> a])

Section(qs, exs) == JDict([questions |-> JList(qs), example_answers |-> JList(exs)])

QnaDoc(beh, tech) == JDict([behavioral_practice |-> beh, technical_prep |-> tech])

\* n questions Q1..Qn and answers to Qm..Q1, in that order
CountSection(n, m) ==
    Section([i \in 1..n |-> QText(i)], [i \in 1..m |-> Ex(QText(m + 1 - i), AText(m + 1 - i))])

CountChoices == {0, 2, 3, 6, MaxQuestions}

CountDocs ==
    {QnaDoc(CountSection(c[1], c[2]), CountSection(c[3], c[4])) :
        c \in CountChoices \X CountChoices \X CountChoices \X CountChoices}

\* entries of a question list as an upstream may send them
DirtyEntries ==
    {JNull, EmptyStr, JStr(<<SP>>), JStr(<<SP, "Q1", SP>>), JStr(<<"Q1">>), JNum(7),
     JNum(0), EmptyDict, default_beh_q[2]}

DirtyExamples ==
    << Ex(JStr(<<"Q1", SP>>), AText(1)), JStr(<<"not an example">>), Ex(JNum(7), AText(7)),
       Ex(default_beh_q[2], AText(2)), Ex(JNull, AText(3)), Ex(JStr(<<"Q1">>), AText(4)),
       JDict([question |-> QText(5)]) >>

DirtyQuestionFields ==
    {JList(l) : l \in SeqsUpTo(DirtyEntries, MaxDirtyLen)}
        \cup {JNull, JStr(<<"Q1">>), JNum(7), EmptyDict}

DirtySection(qf) == JDict([questions |-> qf, example_answers |-> JList(DirtyExamples)])

DirtyDocs ==
    {QnaDoc(DirtySection(qf), DirtySection(qf)) : qf \in DirtyQuestionFields}
        \cup {QnaDoc(JDict([example_answers |-> JList(DirtyExamples)]),
                     JDict([example_answers |-> Ex(QText(1), AText(1))]))}

\* the lexemes of an upstream answer text
AnswerLexemes ==
    {"{R}Situ", "ation:", "{B}Task:", "{G}Action:", "{P}Result:", SP, "I"}

AnswerTexts == SeqsUpTo(AnswerLexemes, MaxAnswerLen)

ScrubDocs ==
    {QnaDoc(Section(<<QText(1)>>, <<Ex(QText(1), JStr(a))>>),
            Section(<<QText(1), QText(2)>>, <<Ex(QText(2), JStr(a))>>)) : a \in AnswerTexts}
        \cup {QnaDoc(Section(<<QText(1)>>, <<Ex(QText(1), a)>>), EmptyDict) :
                 a \in {JNull, JNum(7), JNum(0), EmptyList}}

\* c upstream bullets, with entries the coercion drops between them
BulletList(tag, c) ==
    JList(<<JNull>> \o [i \in 1..c |-> JStr(<<SP, tag \o ToString(i)>>)] \o <<JStr(<<SP>>)>>)

BestProjectFields ==
    {JNull,
     JDict([title |-> JStr(<<"Ledger">>)]),
     JList(<< JDict([title |-> JStr(<<SP, "Ledger">>), summary |-> JStr(<<"Payments", SP>>)]),
              JDict([summary |-> JStr(<<"Search">>)]),
              JDict([title |-> JStr(<<SP>>), summary |-> JNull]),
              JStr(<<"not a project">>) >>)}

BulletDoc(c, d, bp) ==
    JDict([
      know_all_about_them |-> JDict([k \in KnowKeys |-> BulletList("K", d)]),
      perfect_fit_map |-> JDict([top_strengths |-> BulletList("S", c), best_projects |-> bp]),
      technical_prep |-> JDict([key_concepts |-> BulletList("C", c),
                                red_flags |-> BulletList("F", d)]),
      improvement_zone |-> JDict([k \in ImproveKeys |-> BulletList("G", d)]),
      impress_them_back |-> JDict([k \in ImpressKeys |-> BulletList("I", c)])])

BulletDocs ==
    {BulletDoc(c, d, bp) : c \in 0..MaxBullets, d \in 0..MaxBullets, bp \in BestProjectFields}

\* wrong-typed sections and top-level scalars
SectionShapes == {JNull, JStr(<<"oops">>), EmptyList, EmptyDict, JNum(7)}
SectionKeys ==
    {"know_all_about_them", "perfect_fit_map", "behavioral_practice", "technical_prep",
     "improvement_zone", "impress_them_back"}

ShapeDocs ==
    {JDict([k \in SectionKeys |-> sh]
           @@ [mode |-> m, candidate_name |-> cn, debug_note |-> dn]) :
        sh \in SectionShapes,
        m \in {JNull, JStr(<<SP>>), JStr(<<SP, "role_and_company">>), JNum(7)},
        cn \in {JNull, EmptyStr, JStr(<<"Ann">>), JNum(0)},
        dn \in {JNull, JStr(<<SP>>), JStr(<<"note", SP>>)}}

\* the fields of one upstream example answer
ConfidenceFields ==
    {JNull, JStr(<<"High">>), JStr(<<SP, "MEDIUM", SP>>), JStr(<<"low">>), JStr(<<"sure">>),
     JNum(7)}

LegendFields ==
    {JNull, JStr(<<"see above">>),
     JDict((KeySituation :> JStr(<<SP, "Outage">>)) @@ (KeyTask :> JNum(7))
           @@ (KeyAction :> JNull) @@ ("Extra" :> JStr(<<"x">>))),
     JDict([k \in LegendKeys |-> JStr(<<k>>)])}

NameFields == {JNull, JStr(<<SP, "Acme", SP>>), JNum(0)}

FieldExample(q, cf, lg, nm) ==
    JDict([question |-> q, answer |-> AText(1), confidence |-> cf, legend |-> lg,
           experience_name |-> nm, experience_source_quote |-> nm])

FieldDocs ==
    {QnaDoc(Section(<<QText(1)>>, <<FieldExample(QText(1), cf, lg, nm)>>),
            Section(<<QText(2), QText(2)>>,
                    <<FieldExample(QText(2), cf, lg, nm), Ex(JStr(<<SP, "Q2">>), AText(2))>>)) :
        cf \in ConfidenceFields, lg \in LegendFields, nm \in NameFields}

\* one bullet list of every shape: absent, null, a lone scalar, a list with
\* null, blank and non-string entries
CoerceDoc(f) == JDict([improvement_zone |-> JDict([skill_gaps |-> f])])

CoerceDocs == {CoerceDoc(f) : f \in DirtyQuestionFields}

RawDocs ==
    CountDocs \cup DirtyDocs \cup ScrubDocs \cup BulletDocs \cup ShapeDocs \cup FieldDocs
        \cup CoerceDocs

\* JSON values that are not objects
NonObjects == {JNull, EmptyList, JStr(<<"ok">>), JNum(7), JList(<<EmptyDict>>)}

Contents ==
    {JNull, EmptyStr, NotJson} \cup {JsonText(v) : v \in NonObjects \cup RawDocs}

-----------------------------------------------------------------------------
(* The specification of generate_prep_report *)

\* the lazy singletons of utils/evaluation.py and the threads calling them
NumThreads == 3
MaxCallsPerThread == 2
Threads == 1..NumThreads
Getters == {"get_sentence_model", "get_sentiment_pipeline"}

NoInstance == 0

ThreadIdle == [pc |-> "idle", getter |-> "", local |-> NoInstance, got |-> NoInstance,
               calls |-> 0]

LoadIdle ==
    /\ singleton = [g \in Getters |-> NoInstance]
    /\ built = [g \in Getters |-> 0]
    /\ thr = [t \in Threads |-> ThreadIdle]

PrepInit ==
    /\ pc = "idle"
    /\ args = [job_title |-> JNull, company_name |-> JNull, job_description |-> JNull,
               candidate_name |-> JNull, use_gpt |-> FALSE]
    /\ upstream = NoUpstream
    /\ result = NoResult
    /\ again = JNull
    /\ served = JNull

EvalIdle ==
    /\ epc = "idle"
    /\ ereq = JNull
    /\ eup = JNull
    /\ eresp = JNull
    /\ esaved = JNull
    /\ elocal = JNull

AudioIdle ==
    /\ apc = "idle"
    /\ areq = JNull
    /\ atext = JNull
    /\ aup = JNull
    /\ aresp = JNull
    /\ asaved = JNull
    /\ atmp = "none"

PromptIdle ==
    /\ qpc = "idle"
    /\ qin = JNull
    /\ qprompt = JNull

MockIdle ==
    /\ msession = [user_id |-> [t |-> "absent"], mock_job_title |-> [t |-> "absent"],
                   mock_company |-> [t |-> "absent"],
                   mock_question_count |-> [t |-> "absent"],
                   mock_history |-> [t |-> "absent"]]
    /\ mreq = JNull
    /\ mresp = JNull
    /\ mcalls = <<>>
    /\ msaved = JNull
    /\ mtmp = "none"
    /\ mserved = 0

BankIdle ==
    /\ used_question_ids = [t |-> "absent"]
    /\ nresp = JNull
    /\ nlog = <<>>

NumCallers == 2
MaxDays == 3
Callers == 1..NumCallers
CallIdle == [pc |-> "idle"]

StreakIdle ==
    /\ sday = 1
    /\ slate = FALSE
    /\ suser = [streak_count |-> 0, longest_streak |-> 0]
    /\ srows = [d \in 0..MaxDays |-> 0]
    /\ scall = [t \in Callers |-> CallIdle]

RowsIdle ==
    /\ answers = {}
    /\ inserted = {}
    /\ lastsave = JNull

ReportsIdle ==
    /\ reports = {}
    /\ rsession = [t |-> "absent"]
    /\ rreq = JNull
    /\ rresp = JNull

JobIdle ==
    /\ jreq = JNull
    /\ jresp = JNull
    /\ jtmp = "none"

Init == PrepInit /\ EvalIdle /\ LoadIdle /\ AudioIdle /\ PromptIdle /\ MockIdle /\ BankIdle /\ StreakIdle /\ RowsIdle /\ ReportsIdle /\ JobIdle

Next ==
    \/ \E a \in PrepArgs : Call(a)
    \/ \E e \in ClientErrors : ClientRaises(e)
    \/ \E c \in Contents : ClientReturns(c)
    \/ Renormalize
    \/ \E ok \in BOOLEAN : CustomPrepFinish(ok)

Spec == Init /\ [][Next]_vars

-----------------------------------------------------------------------------
(* Reading a report and an upstream document *)

QnaSections == {"behavioral_practice", "technical_prep"}

Returned == pc \in {"returned", "renormalized", "served"}

Questions(rep, sec) == rep.d[sec].d["questions"].l
Answers(rep, sec) == rep.d[sec].d["example_answers"].l

BankOf(sec) == IF sec = "technical_prep" THEN default_tech_q ELSE default_beh_q

\* the upstream message parsed as a JSON object (an empty message counts as {})
GotObject ==
    /\ upstream.kind = "content"
    /\ json_loads_or_braces(upstream.content).ok
    /\ IsDict(json_loads_or_braces(upstream.content).v)

UpstreamDoc == json_loads_or_braces(upstream.content).v

\* the upstream call failed: the client raised, or the message is not JSON
UpstreamFailed ==
    \/ upstream.kind = "raise"
    \/ upstream.kind = "content" /\ ~json_loads_or_braces(upstream.content).ok

\* the value the upstream document holds at section sec, key k (None when the
\* section is no object or lacks the key)
RawField(sec, k) ==
    LET sv == Get(UpstreamDoc, sec)
    IN  IF IsDict(sv) THEN Get(sv, k) ELSE JNull

\* the entries of a raw list that survive cleaning, cleaned: not null, and
\* not blank once printed and trimmed
Cleaned(raw) ==
    LET l == as_list(raw)
        keep == SelectSeq([i \in 1..Len(l) |->
                              IF l[i] = JNull THEN EmptyStr ELSE JStr(Strip(StrOf(l[i])))],
                          LAMBDA x : x # EmptyStr)
    IN  keep

FirstSix(l) == [i \in 1..(IF Len(l) < 6 THEN Len(l) ELSE 6) |-> l[i]]

-----------------------------------------------------------------------------
(* C1 *)

CardinalityLaw(rep) ==
    \A sec \in QnaSections :
        /\ Len(Questions(rep, sec)) = 6
        /\ Len(Answers(rep, sec)) = 6
        /\ \A i \in 1..6 : Answers(rep, sec)[i].d["question"] = Questions(rep, sec)[i]

\* C1: whenever the upstream message parses as a JSON object, the report of
\* _normalize_prep_report followed by _enforce_exact_qna_counts has exactly 6
\* questions and 6 example answers in each Q/A section, answer i carrying
\* question i.
C1_CardinalityLaw ==
    (Returned /\ GotObject) => (result.path = "gpt" /\ CardinalityLaw(result.report))

\* 9 upstream behavioral questions with 3 answers, no technical section content
C1_Witness ==
    /\ pc = "returned"
    /\ upstream = [kind |-> "content",
                   content |-> JsonText(QnaDoc(CountSection(MaxQuestions, 3), CountSection(0, 0)))]
    /\ CardinalityLaw(result.report)

-----------------------------------------------------------------------------
(* C4, C5 *)

HasStarToken(text) == \E i \in 1..Len(StarTokens) : Contains(text, StarTokens[i])

AnswerTextsOf(rep) ==
    {Answers(rep, sec)[i].d["answer"].s : sec \in QnaSections, i \in 1..6}

\* C4: normalising the normalised report again gives the same report.
C4_Idempotent == (pc = "renormalized") => (again = result.report)

\* C5: no example answer of the normalised report contains one of the four
\* STAR label tokens.
C5_NoStarTokens ==
    (Returned /\ result.path = "gpt") =>
        \A a \in AnswerTextsOf(result.report) : ~HasStarToken(a)

-----------------------------------------------------------------------------
(* C6, C7 *)

\* C6 as the specification states it: after an upstream failure both Q/A
\* sections of the returned report hold empty lists.
C6_OfflineEmpty ==
    (Returned /\ UpstreamFailed) =>
        \A sec \in QnaSections :
            Questions(result.report, sec) = <<>> /\ Answers(result.report, sec) = <<>>

IsFallbackAnswer(ex, q) ==
    /\ ex.d["question"] = q
    /\ ex.d["confidence"] = JStr(<<"low">>)
    /\ ex.d["experience_name"] = EmptyStr
    /\ ex.d["experience_source_quote"] = EmptyStr
    /\ ex.d["answer"] \in {JStr(TechFallbackAnswer), JStr(BehFallbackAnswer)}
    /\ DOMAIN ex.d["legend"].d = LegendKeys

\* C6 amended: after an upstream failure (the client raised, or a non-empty
\* message that is not JSON) the returned report is the offline skeleton put
\* through _enforce_exact_qna_counts: each Q/A section holds the 6 questions of
\* its bank and 6 synthesized fallback answers, the other sections are the
\* skeleton's, and debug_note tells of the failure.
C6_FallbackEnforced ==
    (Returned /\ UpstreamFailed) =>
        LET skeleton == _local_fallback_prep_report(args.job_title, args.company_name,
                                                    args.job_description, args.candidate_name)
        IN  /\ result.path = "except"
            /\ \A sec \in QnaSections :
                  /\ Questions(result.report, sec) = BankOf(sec)
                  /\ Len(Answers(result.report, sec)) = 6
                  /\ \A i \in 1..6 :
                        IsFallbackAnswer(Answers(result.report, sec)[i], BankOf(sec)[i])
            /\ \A k \in SectionKeys \ QnaSections : result.report.d[k] = skeleton.d[k]
            /\ result.report.d["technical_prep"].d["key_concepts"] = EmptyList
            /\ result.report.d["debug_note"].s[1]
                  = "GPT generation failed, fallback mode used. Error: "

\* the upstream message is not JSON, and the report came back
C6_Witness ==
    /\ pc = "returned"
    /\ upstream = [kind |-> "content", content |-> NotJson]
    /\ Len(Questions(result.report, "technical_prep")) = 6

-----------------------------------------------------------------------------
(* C8 *)

NoUpstreamAnswers(sec) == as_list(RawField(sec, "example_answers")) = <<>>

\* C8: the final questions of a section are the first 6 of the cleaned
\* upstream questions followed by the section's bank; and when the upstream
\* sent no example answers for the section, all 6 answers are synthesized
\* fallbacks with confidence "low" and empty provenance.
C8_QuestionsThenBank ==
    (Returned /\ GotObject) =>
        \A sec \in QnaSections :
            /\ Questions(result.report, sec)
                  = FirstSix(Cleaned(RawField(sec, "questions")) \o BankOf(sec))
            /\ NoUpstreamAnswers(sec) =>
                  \A i \in 1..6 :
                      IsFallbackAnswer(Answers(result.report, sec)[i],
                                       Questions(result.report, sec)[i])

\* 2 upstream technical questions, no example answers
C8_Witness ==
    /\ pc = "returned"
    /\ upstream = [kind |-> "content",
                   content |-> JsonText(QnaDoc(CountSection(0, 0), CountSection(2, 0)))]
    /\ Questions(result.report, "technical_prep")
          = <<QText(1), QText(2), default_tech_q[1], default_tech_q[2], default_tech_q[3],
              default_tech_q[4]>>
    /\ \A i \in 1..6 :
          Answers(result.report, "technical_prep")[i].d["answer"] = JStr(TechFallbackAnswer)

-----------------------------------------------------------------------------
(* C9 *)

RECURSIVE SumLen(_, _)
SumLen(sec, keys) ==
    IF keys = {} THEN 0
    ELSE LET k == CHOOSE x \in keys : TRUE
         IN  Len(sec.d[k].l) + SumLen(sec, keys \ {k})

BulletFields ==
    {<<"impress_them_back", k>> : k \in ImpressKeys}
        \cup {<<"know_all_about_them", k>> : k \in KnowKeys}
        \cup {<<"technical_prep", "key_concepts">>, <<"technical_prep", "red_flags">>}

-----------------------------------------------------------------------------
(* C10 *)

\* C10: generate_prep_report returns a report document whatever the upstream
\* does: once the upstream has answered or raised, the call has returned a
\* document with all six sections.
C10_AlwaysReturns ==
    /\ pc \in {"idle", "awaiting", "returned", "renormalized", "served"}
    /\ (pc = "awaiting") => (upstream.kind = "none")
    /\ Returned =>
          /\ result.path \in {"error", "offline", "gpt", "except"}
          /\ IsDict(result.report)
          /\ SectionKeys \subseteq DOMAIN result.report.d
          /\ \A k \in SectionKeys : IsDict(result.report.d[k])

\* the upstream message is JSON but not an object
C10_Witness ==
    /\ pc = "returned"
    /\ upstream = [kind |-> "content", content |-> JsonText(JList(<<EmptyDict>>))]
    /\ result.path = "except"
    /\ IsDict(result.report)

-----------------------------------------------------------------------------
(* utils/evaluation.py.  A float is an integer count of 1/10000; a score of  *)
(* 62.5 is 625000, a similarity or probability of 1.0 is 10000.              *)

Scale == 100 * 100
Pts(n) == n * Scale

Min(a, b) == IF a < b THEN a ELSE b
Max(a, b) == IF a > b THEN a ELSE b

\* max(0.0, min(100.0, x))
Clamp(x) == Max(0, Min(Pts(100), x))

\* round(x, 2): to the nearest hundredth, a tie to the even hundredth
Round2(x) ==
    LET q == x \div 100
        r == x % 100
    IN  IF r < 50 THEN q * 100
        ELSE IF r > 50 THEN (q + 1) * 100
        ELSE IF q % 2 = 0 THEN q * 100 ELSE (q + 1) * 100

\* np.dot, np.linalg.norm on the embeddings, which are integer vectors of
\* integer length here
Dot(u, v) == u[1] * v[1] + u[2] * v[2]
Norm(v) == CHOOSE r \in 0..Dot(v, v) : r * r = Dot(v, v)

\* cosine_similarity
cosine_similarity(vec1, vec2) ==
    LET dot == Dot(vec1, vec2)
        norm1 == Norm(vec1)
        norm2 == Norm(vec2)
    IN  IF norm1 = 0 \/ norm2 = 0 THEN 0
        ELSE (dot * Scale) \div (norm1 * norm2)

\* score_relevance, emb the encoder's vectors for the three texts
score_relevance(emb) ==
    LET sim_ideal == cosine_similarity(emb.ideal, emb.user)
        sim_question == cosine_similarity(emb.question, emb.user)
        \* ten times combined_sim
        combined10 == 7 * sim_ideal + 3 * sim_question
        relevance_score == ((combined10 + 10 * Scale) * 100) \div 20
    IN  Clamp(relevance_score)

\* label.upper()
UpperOf(label) ==
    CASE label = "positive" -> "POSITIVE"
      [] label = "neutral" -> "NEUTRAL"
      [] label = "negative" -> "NEGATIVE"
      [] label = "label_2" -> "LABEL_2"
      [] OTHER -> label

\* lines 138-143 with a neutral range that reaches into the positive one
BaseOfWideNeutral(label, score) ==
    IF UpperOf(label) = "POSITIVE" THEN (8 * Scale + 2 * score) \div 10
    ELSE IF UpperOf(label) = "NEUTRAL" THEN (5 * Scale + 5 * score) \div 10
    ELSE (2 * Scale + 3 * (Scale - score)) \div 10

\* lines 138-143: the base value of a label and its probability
BaseOf(label, score) ==
    IF UpperOf(label) = "POSITIVE" THEN (8 * Scale + 2 * score) \div 10
    ELSE IF UpperOf(label) = "NEUTRAL" THEN (5 * Scale + 3 * score) \div 10
    ELSE (2 * Scale + 3 * (Scale - score)) \div 10

\* score_confidence, sentiment the classifier's label and probability for
\* user_answer[:512]
score_confidence(user_answer, sentiment) ==
    LET score == sentiment.score
        base == BaseOf(sentiment.label, score)
        length == Len(Split(user_answer))
        length_factor == Min((length * Scale) \div 40, Scale)
        confidence_score == ((6 * base + 4 * length_factor) * 100) \div 10
    IN  Clamp(confidence_score)

FbRelevantHigh == "Your answer is highly relevant to the question."
FbRelevantMid == "Your answer is mostly relevant, but you could align it more closely with what the question is asking."
FbRelevantLow == "Your answer only partially addresses the question. Try to focus more on what is being asked."
FbConfidentHigh == "You sound confident and clear in your explanation."
FbConfidentMid == "Your communication is okay, but you could be more structured and assertive."
FbConfidentLow == "Your answer comes across as hesitant or incomplete. Try speaking more clearly and giving concrete examples."
FbExpand == "Consider expanding your answer with more detail or examples."

\* build_feedback_text with the nudge also given to an answer of 30 words
build_feedback_text_NudgeAt30(user_answer, relevance_score, confidence_score) ==
    LET p1 == IF relevance_score > Pts(80) THEN <<FbRelevantHigh>>
              ELSE IF relevance_score > Pts(60) THEN <<FbRelevantMid>>
              ELSE <<FbRelevantLow>>
        p2 == IF confidence_score > Pts(80) THEN <<FbConfidentHigh>>
              ELSE IF confidence_score > Pts(60) THEN <<FbConfidentMid>>
              ELSE <<FbConfidentLow>>
        p3 == IF Len(Split(user_answer)) <= 30 THEN <<FbExpand>> ELSE <<>>
    IN  JoinSp([i \in 1..Len(p1 \o p2 \o p3) |-> <<(p1 \o p2 \o p3)[i]>>])

\* build_feedback_text
build_feedback_text(user_answer, relevance_score, confidence_score) ==
    LET p1 == IF relevance_score > Pts(80) THEN <<FbRelevantHigh>>
              ELSE IF relevance_score > Pts(60) THEN <<FbRelevantMid>>
              ELSE <<FbRelevantLow>>
        p2 == IF confidence_score > Pts(80) THEN <<FbConfidentHigh>>
              ELSE IF confidence_score > Pts(60) THEN <<FbConfidentMid>>
              ELSE <<FbConfidentLow>>
        p3 == IF Len(Split(user_answer)) < 30 THEN <<FbExpand>> ELSE <<>>
    IN  JoinSp([i \in 1..Len(p1 \o p2 \o p3) |-> <<(p1 \o p2 \o p3)[i]>>])

\* evaluate_answer with a final_score that gains a point for each word of the
\* answer
evaluate_answer_WordBonus(question, user_answer, m) ==
    LET relevance_score == score_relevance(m.emb)
        confidence_score == score_confidence(user_answer, m.sentiment)
        final_score == (6 * relevance_score + 4 * confidence_score) \div 10
                           + Pts(Len(Split(user_answer)))
    IN  [question |-> question,
         user_answer |-> user_answer,
         relevance_score |-> Round2(relevance_score),
         confidence_score |-> Round2(confidence_score),
         final_score |-> Round2(final_score),
         feedback_text |-> build_feedback_text(user_answer, relevance_score, confidence_score)]

\* evaluate_answer with the 0.7 / 0.3 weights of gpt_evaluate_answer
evaluate_answer_RemoteWeights(question, user_answer, m) ==
    LET relevance_score == score_relevance(m.emb)
        confidence_score == score_confidence(user_answer, m.sentiment)
        final_score == (7 * relevance_score + 3 * confidence_score) \div 10
    IN  [question |-> question,
         user_answer |-> user_answer,
         relevance_score |-> Round2(relevance_score),
         confidence_score |-> Round2(confidence_score),
         final_score |-> Round2(final_score),
         feedback_text |-> build_feedback_text(user_answer, relevance_score, confidence_score)]

\* evaluate_answer, m the outputs of the two models for these texts
evaluate_answer(question, user_answer, m) ==
    LET relevance_score == score_relevance(m.emb)
        confidence_score == score_confidence(user_answer, m.sentiment)
        final_score == (6 * relevance_score + 4 * confidence_score) \div 10
    IN  [question |-> question,
         user_answer |-> user_answer,
         relevance_score |-> Round2(relevance_score),
         confidence_score |-> Round2(confidence_score),
         final_score |-> Round2(final_score),
         feedback_text |-> build_feedback_text(user_answer, relevance_score, confidence_score)]

\* float(x)
to_float(x) ==
    CASE x.t = "num" -> [ok |-> TRUE, x |-> x.n]
      [] x.t = "str" /\ x.s = <<"85">> -> [ok |-> TRUE, x |-> Pts(85)]
      [] x.t = "str" -> [ok |-> FALSE, err |-> "could not convert string to float"]
      [] OTHER -> [ok |-> FALSE, err |-> "float() argument must be a string or a real number"]

\* data.get(k, default)
GetOr(x, k, default) == IF k \in DOMAIN x.d THEN x.d[k] ELSE default

\* "; ".join(items)
RECURSIVE JoinSemi(_)
JoinSemi(items) ==
    IF items = <<>> THEN <<>>
    ELSE IF Len(items) = 1 THEN items[1]
    ELSE items[1] \o <<"; ">> \o JoinSemi(Tail(items))

\* prefix + "; ".join(v) for a truthy v, "" for a falsy one; join raises on
\* what is no iterable of str (of a str it joins the characters, which are
\* its lexemes here)
Clause(prefix, v) ==
    IF ~Truthy(v) THEN [ok |-> TRUE, s |-> <<>>]
    ELSE IF v.t = "list" /\ \A i \in 1..Len(v.l) : IsStr(v.l[i])
    THEN [ok |-> TRUE, s |-> <<prefix>> \o JoinSemi([i \in 1..Len(v.l) |-> v.l[i].s])]
    ELSE IF v.t = "str"
    THEN [ok |-> TRUE, s |-> <<prefix>> \o JoinSemi([i \in 1..Len(v.s) |-> <<v.s[i]>>])]
    ELSE [ok |-> FALSE, err |-> "sequence item 0: expected str instance"]

Raised(e) == [ok |-> FALSE, err |-> e]

\* lines 274-278 with `if gpt_final:` for `if gpt_final is not None:`
FinalOfIfTruthy(gpt_final, rel, conf) ==
    IF Truthy(gpt_final) THEN to_float(gpt_final)
    ELSE [ok |-> TRUE, x |-> (7 * rel + 3 * conf) \div 10]

\* lines 274-278: the upstream's final_score when it is not None, else the
\* 0.7 / 0.3 blend of the two float scores
FinalOf(gpt_final, rel, conf) ==
    IF gpt_final # JNull THEN to_float(gpt_final)
    ELSE [ok |-> TRUE, x |-> (7 * rel + 3 * conf) \div 10]

\* gpt_evaluate_answer from line 268 on, content the upstream message
RubricRecord(question, user_answer, content) ==
    IF content.t # "json" THEN Raised("the JSON object must be str, or not valid JSON")
    ELSE LET data == content.v IN
    IF ~IsDict(data) THEN Raised("object has no attribute 'get'")
    ELSE LET rel == to_float(GetOr(data, "relevance_score", JNum(0)))
             conf == to_float(GetOr(data, "confidence_score", JNum(0)))
             gpt_final == Get(data, "final_score") IN
    IF ~rel.ok THEN Raised(rel.err)
    ELSE IF ~conf.ok THEN Raised(conf.err)
    ELSE LET fin == FinalOf(gpt_final, rel.x, conf.x)
             strengths == GetOr(data, "strengths", EmptyList)
             improvements == GetOr(data, "improvements", EmptyList)
             strengths_text == Clause("Strengths: ", strengths)
             improvements_text == Clause("Improvements: ", improvements) IN
    IF ~fin.ok THEN Raised(fin.err)
    ELSE IF ~strengths_text.ok THEN Raised(strengths_text.err)
    ELSE IF ~improvements_text.ok THEN Raised(improvements_text.err)
    ELSE [ok |-> TRUE,
          rec |-> [question |-> question,
                   user_answer |-> user_answer,
                   relevance_score |-> Round2(rel.x),
                   confidence_score |-> Round2(conf.x),
                   final_score |-> Round2(fin.x),
                   feedback_text |->
                       JoinSp(SelectSeq(<<strengths_text.s, improvements_text.s>>,
                                        LAMBDA part : part # <<>>)),
                   strengths |-> strengths,
                   improvements |-> improvements]]

-----------------------------------------------------------------------------
(* app.py: the /answer request, from a session with no login *)

DailyQuestionText == <<"Tell me about a conflict you resolved.">>

ErrorPage(msg) == [status |-> 200, result |-> [error |-> msg]]

\* the Answer row save_answer_to_db adds for the request
AnswerRow(user_answer, rec) ==
    [question_source |-> "daily",
     raw_question_text |-> DailyQuestionText,
     answer_text |-> user_answer,
     relevance_score |-> rec.relevance_score,
     confidence_score |-> rec.confidence_score,
     final_score |-> rec.final_score,
     feedback_text |-> IF rec.feedback_text # <<>> THEN JStr(rec.feedback_text) ELSE JNull]

\* save_answer_to_db with a commit that raises and no except around it
save_answer_to_db_NoExcept(row, commit_ok) ==
    [raised |-> ~commit_ok, saved |-> IF commit_ok THEN row ELSE JNull]

\* save_answer_to_db (lines 529-591): the row added and committed; any
\* exception is answered by a rollback and does not leave the function
save_answer_to_db(row, commit_ok) ==
    [raised |-> FALSE, saved |-> IF commit_ok THEN row ELSE JNull]

\* answer() up to the rubric call (lines 757-779): form.answer is the answer
\* field, form.question_id is "" (absent), "known" or "unknown"
AnswerRequest(form) ==
    /\ epc = "idle"
    /\ apc = "idle"
    /\ pc = "idle"
    /\ ereq' = form
    /\ IF Strip(form.answer) = <<>>
       THEN /\ eresp' = ErrorPage("No answer received. Please type something.")
            /\ epc' = "done"
       ELSE IF form.question_id = ""
       THEN /\ eresp' = ErrorPage("Missing question ID.")
            /\ epc' = "done"
       ELSE IF form.question_id # "known"
       THEN /\ eresp' = ErrorPage("Daily question not found.")
            /\ epc' = "done"
       ELSE /\ eresp' = JNull
            /\ epc' = "rubric"
    /\ UNCHANGED <<eup, esaved, elocal, notEval>>

\* client.chat.completions.create raises inside gpt_evaluate_answer: nothing
\* in gpt_evaluate_answer or answer() catches it
RubricRaises(e) ==
    /\ epc = "rubric"
    /\ eup' = [kind |-> "raise", err |-> e]
    /\ eresp' = InternalServerError
    /\ epc' = "done"
    /\ UNCHANGED <<ereq, esaved, elocal, notEval>>

\* the rubric call returns a message; the rest of gpt_evaluate_answer, then
\* answer() lines 785-800, the commit of save_answer_to_db succeeding or not
RubricReturns(content, commit_ok) ==
    /\ epc = "rubric"
    /\ eup' = [kind |-> "content", content |-> content]
    /\ LET out == RubricRecord(DailyQuestionText, Strip(ereq.answer), content)
       IN  IF ~out.ok
           THEN /\ eresp' = InternalServerError
                /\ esaved' = esaved
           ELSE LET sv == save_answer_to_db(AnswerRow(Strip(ereq.answer), out.rec),
                                            commit_ok)
                IN  /\ eresp' = IF sv.raised THEN InternalServerError
                                ELSE [status |-> 200, result |-> out.rec]
                    /\ esaved' = sv.saved
    /\ epc' = "done"
    /\ UNCHANGED <<ereq, elocal, notEval>>

\* a direct call of evaluate_answer
LocalEvaluate(user_answer, m) ==
    /\ epc = "idle"
    /\ apc = "idle"
    /\ pc = "idle"
    /\ elocal' = [m |-> m, rec |-> evaluate_answer(DailyQuestionText, user_answer, m)]
    /\ epc' = "local"
    /\ UNCHANGED <<ereq, eup, eresp, esaved, notEval>>

-----------------------------------------------------------------------------
(* app.py: the /audio request, from a session with no login.  One request   *)
(* is followed at a time: /answer and /audio share no state.                 *)

PracticeQuestionText == <<"Describe a project you are proud of.">>

\* jsonify(body), status
JsonResponse(status, body) == [status |-> status, json |-> body]

\* the except branch of audio() (lines 856-857), e the exception's text
AudioError(e) == JsonResponse(500, [error |-> <<"Error processing audio: ", e>>])

\* a finally block that removes nothing
AfterFinally_NoRemove(rm_ok) == "exists"

\* the finally branch (lines 859-864): os.remove, an error of which is
\* swallowed and leaves the file
AfterFinally(rm_ok) == IF rm_ok THEN "removed" ELSE "left"

\* the Answer row save_answer_to_db adds for the /audio request
AudioRow(transcript, rec) ==
    [question_source |-> "practice",
     raw_question_text |-> PracticeQuestionText,
     answer_text |-> transcript,
     is_voice |-> transcript # <<>>,
     transcript |-> transcript,
     relevance_score |-> rec.relevance_score,
     confidence_score |-> rec.confidence_score,
     final_score |-> rec.final_score,
     feedback_text |-> IF rec.feedback_text # <<>> THEN JStr(rec.feedback_text) ELSE JNull]

\* audio() up to the transcription call (lines 804-832): form.has_file says
\* whether the request carries an "audio" file, form.filename is its name,
\* form.question_id is "known" or "unknown"
AudioRequest(form, rm_ok) ==
    /\ apc = "idle"
    /\ epc = "idle"
    /\ pc = "idle"
    /\ msession.user_id.t = "absent"
    /\ jreq = JNull
    /\ areq' = form
    /\ IF ~form.has_file
       THEN /\ aresp' = JsonResponse(400, [error |-> <<"No audio file received.">>])
            /\ apc' = "done"
            /\ atmp' = atmp
       ELSE IF form.filename = ""
       THEN /\ aresp' = JsonResponse(400, [error |-> <<"Empty audio filename.">>])
            /\ apc' = "done"
            /\ atmp' = atmp
       ELSE IF form.question_id # "known"
       THEN /\ aresp' = JsonResponse(400, [error |-> <<"Question not found.">>])
            /\ apc' = "done"
            /\ atmp' = AfterFinally(rm_ok)
       ELSE /\ aresp' = JNull
            /\ apc' = "transcribe"
            /\ atmp' = "exists"
    /\ UNCHANGED <<atext, aup, asaved, notAudio>>

\* client.audio.transcriptions.create raises inside transcribe_audio_whisper
TranscribeRaises(e, rm_ok) ==
    /\ apc = "transcribe"
    /\ aresp' = AudioError(e)
    /\ atmp' = AfterFinally(rm_ok)
    /\ apc' = "done"
    /\ UNCHANGED <<areq, atext, aup, asaved, notAudio>>

\* the transcription returns resp.text; audio() goes on to the rubric call
TranscribeReturns(text) ==
    /\ apc = "transcribe"
    /\ atext' = text
    /\ apc' = "rubric"
    /\ UNCHANGED <<areq, aup, aresp, asaved, atmp, notAudio>>

\* client.chat.completions.create raises inside gpt_evaluate_answer
AudioRubricRaises(e, rm_ok) ==
    /\ apc = "rubric"
    /\ aup' = [kind |-> "raise", err |-> e]
    /\ aresp' = AudioError(e)
    /\ atmp' = AfterFinally(rm_ok)
    /\ apc' = "done"
    /\ UNCHANGED <<areq, atext, asaved, notAudio>>

\* the rubric call returns a message; the rest of gpt_evaluate_answer, then
\* audio() lines 841-864, the commit of save_answer_to_db succeeding or not
AudioRubricReturns(content, commit_ok, rm_ok) ==
    /\ apc = "rubric"
    /\ aup' = [kind |-> "content", content |-> content]
    /\ LET out == RubricRecord(PracticeQuestionText, atext, content)
       IN  IF ~out.ok
           THEN /\ aresp' = AudioError(out.err)
                /\ asaved' = asaved
           ELSE LET sv == save_answer_to_db(AudioRow(atext, out.rec), commit_ok)
                IN  /\ aresp' = IF sv.raised THEN AudioError("commit failed")
                                ELSE JsonResponse(200, [transcript |-> atext] @@ out.rec)
                    /\ asaved' = sv.saved
    /\ atmp' = AfterFinally(rm_ok)
    /\ apc' = "done"
    /\ UNCHANGED <<areq, atext, notAudio>>

-----------------------------------------------------------------------------
(* The inputs of the evaluation *)

MaxWords == 41

\* n words, one space between them
Words(n) == [i \in 1..(IF n = 0 THEN 0 ELSE 2 * n - 1) |-> IF i % 2 = 1 THEN "word" ELSE SP]

EvalAnswers ==
    {Words(n) : n \in {0, 1, 29, 30, 39, 40, MaxWords}}
        \cup {<<SP, SP>>, <<SP, "word", SP, SP, "word", SP>>}

AnswerForms == [answer : EvalAnswers, question_id : {"", "known", "unknown"}]

Embeddings ==
    [ideal : {<<3, 4>>, <<0, 0>>},
     user : {<<0, 0>>, <<3, 4>>, <<4, 3>>, <<-3, -4>>},
     question : {<<4, 3>>, <<3, 4>>}]

Sentiments ==
    [label : {"POSITIVE", "neutral", "NEGATIVE", "LABEL_2"},
     score : {0, 3330, Scale \div 2, Scale}]

ModelOutputs == [emb : Embeddings, sentiment : Sentiments]

Absent == [t |-> "absent"]

\* the JSON object with the fields that are not absent
Obj(f) == JDict([k \in {x \in DOMAIN f : f[x] # Absent} |-> f[k]])

RubricObjects ==
    {Obj([relevance_score |-> r, confidence_score |-> c, final_score |-> f,
          strengths |-> st, improvements |-> im]) :
        r \in {Absent, JNull, JNum(Pts(-5)), JNum(0), JNum(626250), JNum(Pts(150)),
               JStr(<<"85">>), JStr(<<"high">>)},
        c \in {Absent, JNum(Pts(70)), JNum(Pts(100) + 50)},
        f \in {Absent, JNull, JNum(0), JNum(626250), JNum(Pts(120))},
        st \in {Absent, EmptyList, JList(<<JStr(<<"Clear structure">>)>>),
                JList(<<JStr(<<"Clear structure">>), JStr(<<"Specific result">>)>>),
                JList(<<JNum(7)>>)},
        im \in {Absent, JList(<<JStr(<<"Add a measurable result">>)>>)}}

RubricContents ==
    {JNull, NotJson} \cup {JsonText(v) : v \in {EmptyList, JNum(7)} \cup RubricObjects}

AudioForms == [has_file : BOOLEAN, filename : {"", "answer.webm"},
               question_id : {"known", "unknown"}]

Transcripts == {<<>>, <<"word">>, Words(30)}

AudioContents ==
    {JNull, NotJson, JsonText(EmptyList), JsonText(EmptyDict),
     JsonText(Obj([relevance_score |-> JNum(626250), confidence_score |-> JNum(Pts(70)),
                   strengths |-> JList(<<JStr(<<"Clear structure">>)>>)])),
     JsonText(Obj([relevance_score |-> JNum(Pts(150)), confidence_score |-> JNum(Pts(70)),
                   final_score |-> JNum(0)]))}

EvalNext ==
    \/ \E form \in AnswerForms : AnswerRequest(form)
    \/ \E e \in ClientErrors : RubricRaises(e)
    \/ \E c \in RubricContents, ok \in BOOLEAN : RubricReturns(c, ok)
    \/ \E a \in EvalAnswers, m \in ModelOutputs : LocalEvaluate(a, m)
    \/ \E form \in AudioForms, rm \in BOOLEAN : AudioRequest(form, rm)
    \/ \E e \in ClientErrors, rm \in BOOLEAN : TranscribeRaises(e, rm)
    \/ \E text \in Transcripts : TranscribeReturns(text)
    \/ \E e \in ClientErrors, rm \in BOOLEAN : AudioRubricRaises(e, rm)
    \/ \E c \in AudioContents, ok \in BOOLEAN, rm \in BOOLEAN : AudioRubricReturns(c, ok, rm)

SpecEval == Init /\ [][EvalNext]_vars

\* the three routes, one request followed at a time
AllNext == Next \/ EvalNext

SpecAll == Init /\ [][AllNext]_vars

-----------------------------------------------------------------------------
(* C2, C3 *)

\* the rubric call failed: the client raised, or the message is no JSON
RubricFailed ==
    \/ eup.kind = "raise"
    \/ eup.kind = "content" /\ eup.content.t # "json"

\* C2: whenever the rubric call fails, the /answer request delivers the
\* record evaluate_answer produces for the same question and answer, and no
\* failure response.
C2_FallbackToLocal ==
    (epc = "done" /\ eup # JNull /\ RubricFailed) =>
        /\ eresp.status = 200
        /\ \E m \in ModelOutputs :
              eresp.result = evaluate_answer(DailyQuestionText, Strip(ereq.answer), m)

InRange(x) == 0 <= x /\ x <= Pts(100)

ScoresInRange(rec) ==
    InRange(rec.relevance_score) /\ InRange(rec.confidence_score) /\ InRange(rec.final_score)

\* C3: the three scores of every record evaluate_answer or gpt_evaluate_answer
\* returns lie in [0,100].
C3_ScoresInRange ==
    /\ (epc = "local") => ScoresInRange(elocal.rec)
    /\ (epc = "done" /\ eresp.status = 200 /\ eup # JNull) => ScoresInRange(eresp.result)

-----------------------------------------------------------------------------
(* C12 *)

\* the /answer request delivered a record of gpt_evaluate_answer
GotRecord == epc = "done" /\ eup # JNull /\ eresp.status = 200

\* the object the rubric call returned
RubricData == eup.content.v

\* the upstream's final_score is there and not null
FinalSupplied == Get(RubricData, "final_score") # JNull

\* float() of an upstream score, 0.0 for an absent one
UpstreamScore(k) == to_float(GetOr(RubricData, k, JNum(0))).x

\* C12 as the specification states it: a supplied final_score (0 too) is the
\* record's final_score; without one the record's final_score is 0.7 times
\* its relevance_score plus 0.3 times its confidence_score.
C12_FinalScoreRule ==
    GotRecord =>
        IF FinalSupplied
        THEN eresp.result.final_score = to_float(Get(RubricData, "final_score")).x
        ELSE 10 * eresp.result.final_score
                 = 7 * eresp.result.relevance_score + 3 * eresp.result.confidence_score

\* C12 amended: a supplied final_score (0 too) rounded to two decimals is the
\* record's final_score; without one the record's final_score is the blend
\* 0.7 * relevance + 0.3 * confidence of the two upstream scores as floats,
\* before their rounding, itself rounded to two decimals.
C12_FinalScoreRounded ==
    GotRecord =>
        IF FinalSupplied
        THEN eresp.result.final_score = Round2(to_float(Get(RubricData, "final_score")).x)
        ELSE eresp.result.final_score
                 = Round2((7 * UpstreamScore("relevance_score")
                             + 3 * UpstreamScore("confidence_score")) \div 10)

\* the upstream sent final_score 0 beside a relevance of 62.625 and a
\* confidence of 70, and the record's final_score is 0
C12_Witness ==
    /\ GotRecord
    /\ Get(RubricData, "final_score") = JNum(0)
    /\ Get(RubricData, "relevance_score") = JNum(626250)
    /\ Get(RubricData, "confidence_score") = JNum(Pts(70))
    /\ eresp.result.final_score = 0

-----------------------------------------------------------------------------
(* C13 *)

\* the upstream objects a record is compared with
ComparedContents ==
    {JsonText(Obj([relevance_score |-> r, confidence_score |-> c, final_score |-> f])) :
        r \in {Absent, JNum(0), JNum(626250), JNum(626200)},
        c \in {Absent, JNum(Pts(70))},
        f \in {Absent, JNull, JNum(0), JNum(Pts(120))}}

\* the evaluate_answer inputs a record is compared with
ComparedAnswers == {Words(40), Words(MaxWords)}
ComparedOutputs ==
    [emb : [ideal : {<<3, 4>>}, user : {<<3, 4>>, <<4, 3>>}, question : {<<4, 3>>, <<3, 4>>}],
     sentiment : [label : {"POSITIVE", "LABEL_2"}, score : {0, Scale}]]

\* C13 as the specification states it: two records of the same evaluation
\* mode with equal relevance_score and equal confidence_score have equal
\* final_score.
C13_FinalIsFunction ==
    /\ (epc = "local") =>
          \A a \in ComparedAnswers, m \in ComparedOutputs :
              LET other == evaluate_answer(DailyQuestionText, a, m)
              IN  (/\ other.relevance_score = elocal.rec.relevance_score
                   /\ other.confidence_score = elocal.rec.confidence_score)
                      => other.final_score = elocal.rec.final_score
    /\ GotRecord =>
          \A c \in ComparedContents :
              LET other == RubricRecord(DailyQuestionText, Strip(ereq.answer), c).rec
              IN  (/\ other.relevance_score = eresp.result.relevance_score
                   /\ other.confidence_score = eresp.result.confidence_score)
                      => other.final_score = eresp.result.final_score

\* C13 amended: two evaluate_answer calls whose score_relevance and
\* score_confidence values are equal before rounding give equal final_score;
\* two gpt_evaluate_answer calls whose upstream objects both lack a
\* final_score (absent or null) and have equal relevance and confidence as
\* floats give equal final_score.
C13_FinalFromUnrounded ==
    /\ (epc = "local") =>
          \A a \in ComparedAnswers, m \in ComparedOutputs :
              (/\ score_relevance(m.emb) = score_relevance(elocal.m.emb)
               /\ score_confidence(a, m.sentiment)
                     = score_confidence(elocal.rec.user_answer, elocal.m.sentiment))
                  => evaluate_answer(DailyQuestionText, a, m).final_score
                         = elocal.rec.final_score
    /\ (GotRecord /\ ~FinalSupplied) =>
          \A c \in ComparedContents :
              (/\ Get(c.v, "final_score") = JNull
               /\ to_float(GetOr(c.v, "relevance_score", JNum(0))).x
                     = UpstreamScore("relevance_score")
               /\ to_float(GetOr(c.v, "confidence_score", JNum(0))).x
                     = UpstreamScore("confidence_score"))
                  => RubricRecord(DailyQuestionText, Strip(ereq.answer), c).rec.final_score
                         = eresp.result.final_score

\* an answer of more than 40 words evaluated, and the 40-word answer with the
\* same model outputs has the same two scores and the same final_score
C13_Witness ==
    /\ epc = "local"
    /\ elocal.rec.user_answer = Words(MaxWords)
    /\ score_confidence(Words(40), elocal.m.sentiment)
          = score_confidence(elocal.rec.user_answer, elocal.m.sentiment)
    /\ evaluate_answer(DailyQuestionText, Words(40), elocal.m).final_score
          = elocal.rec.final_score

-----------------------------------------------------------------------------
(* C14 *)

\* 0.6 * relevance + 0.4 * confidence of the two scorers' outputs for the
\* evaluated answer, before rounding
LocalBlend ==
    (6 * score_relevance(elocal.m.emb)
       + 4 * score_confidence(elocal.rec.user_answer, elocal.m.sentiment)) \div 10

\* C14: the final_score of an evaluate_answer record is 0.6 times the output
\* of score_relevance plus 0.4 times the output of score_confidence, rounded
\* to two decimals.
C14_LocalFinalRounded ==
    (epc = "local") => elocal.rec.final_score = Round2(LocalBlend)

\* a record whose two scores differ and whose blend has digits beyond the
\* second decimal, so that the weights and the rounding both show
C14_Witness ==
    /\ epc = "local"
    /\ elocal.rec.relevance_score # elocal.rec.confidence_score
    /\ LocalBlend % 100 # 0
    /\ elocal.rec.final_score = Round2(LocalBlend)

-----------------------------------------------------------------------------
(* C15 *)

\* the rubric call returned a JSON object that carries relevance_score and
\* confidence_score
MatchesSchema ==
    /\ eup.kind = "content"
    /\ eup.content.t = "json"
    /\ IsDict(eup.content.v)
    /\ {"relevance_score", "confidence_score"} \subseteq DOMAIN eup.content.v.d

\* C15: gpt_evaluate_answer returns a record only when the upstream call
\* succeeded with content that matches the schema; when the call raised, or
\* the content is no JSON, or a score field is missing, it fails and no
\* record comes back.
C15_RecordOnlyOnSchema ==
    (epc = "done" /\ eup # JNull) => (eresp.status = 200 => MatchesSchema)

-----------------------------------------------------------------------------
(* C16 *)

\* the text holds the message of an exception the upstream client raised
HasUpstreamErrorText(text) == \E i \in 1..Len(text) : text[i] \in ClientErrors

\* C16: nothing delivered to the user holds the raw text of an upstream
\* exception: no string of the prep report, not the response of /answer, not
\* the error response of /audio.
C16_NoRawExceptionText ==
    /\ Returned =>
          \A k \in DOMAIN result.report.d :
              IsStr(result.report.d[k]) => ~HasUpstreamErrorText(result.report.d[k].s)
    /\ (epc = "done" /\ eresp.status = 500) => eresp.body \notin ClientErrors
    /\ (apc = "done" /\ "error" \in DOMAIN aresp.json) =>
          ~HasUpstreamErrorText(aresp.json.error)

-----------------------------------------------------------------------------
(* C17 *)

\* C17: when storing fails (the commit in save_answer_to_db, the commit of
\* the PrepReport row in custom_prep), the request still delivers the
\* evaluation or the report it computed, unchanged.
C17_StorageFailureHarmless ==
    /\ (epc = "done" /\ eup # JNull /\ eup.kind = "content" /\ esaved = JNull) =>
          LET out == RubricRecord(DailyQuestionText, Strip(ereq.answer), eup.content)
          IN  out.ok => eresp = [status |-> 200, result |-> out.rec]
    /\ (apc = "done" /\ aup # JNull /\ aup.kind = "content" /\ asaved = JNull) =>
          LET out == RubricRecord(PracticeQuestionText, atext, aup.content)
          IN  out.ok => aresp = JsonResponse(200, [transcript |-> atext] @@ out.rec)
    /\ (pc = "served" /\ served.stored = JNull) =>
          /\ served.status = 200
          /\ served.report = result.report
          /\ served.error = JNull

\* /custom_prep rendered the report of a failed upstream call although the
\* commit of its PrepReport row failed
C17_Witness ==
    /\ pc = "served"
    /\ served.stored = JNull
    /\ served.status = 200
    /\ served.report = result.report
    /\ result.path = "except"

-----------------------------------------------------------------------------
(* C18 *)

\* the upstream example answers of a section, as a list
RawExamples(sec) == as_list(RawField(sec, "example_answers"))

\* the places of the upstream entries whose question, printed and trimmed, is
\* the text of q
MatchesOf(sec, q) ==
    {j \in 1..Len(RawExamples(sec)) :
        /\ IsDict(RawExamples(sec)[j])
        /\ CleanStr(Get(RawExamples(sec)[j], "question")) = q.s}

LastOf(S) == CHOOSE j \in S : \A k \in S : k <= j

\* the confidence of an entry when it is one of high, medium, low in any
\* case, else low
ValidConfidence(x) ==
    LET c == Lower(CleanStr(x))
    IN  IF c \in Confidences THEN c ELSE <<"low">>

\* the fixed template of the section's category
IsTemplateAnswer(ex, q, sec) ==
    ex = make_fallback_answer(q, sec = "technical_prep")

\* C18: for each of the 6 final questions of a section, when upstream example
\* answers carry that question (trimmed), the answer at that index is built
\* from the last of them: its answer text scrubbed, its experience_name and
\* experience_source_quote trimmed, its valid confidence; when none does, the answer is the
\* fixed template of the section's category, confidence low and both
\* provenance fields empty.
C18_AnswerMatching ==
    (Returned /\ GotObject) =>
        \A sec \in QnaSections : \A i \in 1..6 :
            LET q == Questions(result.report, sec)[i]
                out == Answers(result.report, sec)[i]
                m == MatchesOf(sec, q)
            IN  IF m # {}
                THEN LET e == RawExamples(sec)[LastOf(m)]
                     IN  /\ out.d["question"] = q
                         /\ out.d["experience_name"] = JStr(CleanStr(Get(e, "experience_name")))
                         /\ out.d["experience_source_quote"]
                               = JStr(CleanStr(Get(e, "experience_source_quote")))
                         /\ out.d["confidence"] = JStr(ValidConfidence(Get(e, "confidence")))
                         /\ out.d["answer"] = JStr(scrub_answer(CleanStr(Get(e, "answer"))))
                ELSE /\ IsTemplateAnswer(out, q, sec)
                     /\ out.d["experience_name"] = EmptyStr
                     /\ out.d["experience_source_quote"] = EmptyStr
                     /\ out.d["confidence"] = JStr(<<"low">>)

\* a behavioral answer that keeps the provenance and the confidence of its
\* upstream entry, a technical question with two upstream entries answered
\* from the second, and a bank question answered by the template
C18_Witness ==
    /\ pc = "returned"
    /\ GotObject
    /\ RawExamples("behavioral_practice")
          = <<FieldExample(QText(1), JStr(<<SP, "MEDIUM", SP>>), JNull,
                           JStr(<<SP, "Acme", SP>>))>>
    /\ Answers(result.report, "behavioral_practice")[1].d["experience_name"] = JStr(<<"Acme">>)
    /\ Answers(result.report, "behavioral_practice")[1].d["confidence"] = JStr(<<"medium">>)
    /\ Cardinality(MatchesOf("technical_prep", QText(2))) = 2
    /\ Answers(result.report, "technical_prep")[1].d["experience_name"] = EmptyStr
    /\ Answers(result.report, "technical_prep")[1].d["answer"] = AText(2)
    /\ IsTemplateAnswer(Answers(result.report, "behavioral_practice")[2], default_beh_q[1],
                        "behavioral_practice")

-----------------------------------------------------------------------------
(* C19 *)

\* C19: every example answer of a returned report has a legend with exactly
\* the four STAR keys, each holding a string; the string is empty where the
\* upstream entry the answer was built from has no legend mapping, or lacks
\* the key, or holds null at it.
C19_LegendComplete ==
    Returned =>
        \A sec \in QnaSections : \A i \in 1..Len(Answers(result.report, sec)) :
            LET out == Answers(result.report, sec)[i]
                legend == out.d["legend"]
            IN  /\ IsDict(legend)
                /\ DOMAIN legend.d = LegendKeys
                /\ \A k \in LegendKeys : IsStr(legend.d[k])
                /\ (GotObject /\ MatchesOf(sec, out.d["question"]) # {}) =>
                      LET e == RawExamples(sec)[LastOf(MatchesOf(sec, out.d["question"]))]
                          sent == Get(e, "legend")
                      IN  \A k \in LegendKeys :
                              (~IsDict(sent) \/ Get(sent, k) = JNull)
                                  => legend.d[k] = EmptyStr

\* an upstream legend with one text, one number, one null, one key missing
\* and one foreign key, and the four strings the report holds for it
C19_Witness ==
    /\ pc = "returned"
    /\ GotObject
    /\ Len(RawExamples("behavioral_practice")) = 1
    /\ IsDict(RawExamples("behavioral_practice")[1])
    /\ Get(RawExamples("behavioral_practice")[1], "legend")
          = JDict((KeySituation :> JStr(<<SP, "Outage">>)) @@ (KeyTask :> JNum(7))
                  @@ (KeyAction :> JNull) @@ ("Extra" :> JStr(<<"x">>)))
    /\ Answers(result.report, "behavioral_practice")[1].d["legend"]
          = JDict((KeySituation :> JStr(<<"Outage">>)) @@ (KeyTask :> JStr(<<"7">>))
                  @@ (KeyAction :> EmptyStr) @@ (KeyResult :> EmptyStr))

-----------------------------------------------------------------------------
(* C20 *)

\* the three sentiment labels, in any case, and their order
RankOf(label) ==
    CASE UpperOf(label) = "POSITIVE" -> 3
      [] UpperOf(label) = "NEUTRAL" -> 2
      [] UpperOf(label) = "NEGATIVE" -> 1
      [] OTHER -> 0

Probabilities == {s.score : s \in Sentiments}
RankedLabels == {l \in {s.label : s \in Sentiments} : RankOf(l) > 0}

\* the sentiment of the evaluated answer carries one of the three labels
LocalRanked == epc = "local" /\ RankOf(elocal.m.sentiment.label) > 0

\* C20 as the specification states it: the base value of the evaluated
\* answer's label is above every base value of a lower-ranked label, whatever
\* the two probabilities.
C20_BasesDisjoint ==
    LocalRanked =>
        \A l \in RankedLabels, q \in Probabilities :
            RankOf(elocal.m.sentiment.label) > RankOf(l)
                => BaseOf(elocal.m.sentiment.label, elocal.m.sentiment.score) > BaseOf(l, q)

\* C20 amended: the base value of a label is never below a base value of a
\* lower-ranked label; the two are equal only where the ranges meet: positive
\* at probability 0 with neutral at probability 1 (0.8), neutral at
\* probability 0 with negative at probability 0 (0.5).
C20_BasesOrderedTouching ==
    LocalRanked =>
        LET label == elocal.m.sentiment.label
            p == elocal.m.sentiment.score
        IN  \A l \in RankedLabels, q \in Probabilities :
                RankOf(label) > RankOf(l) =>
                    /\ BaseOf(label, p) >= BaseOf(l, q)
                    /\ (BaseOf(label, p) = BaseOf(l, q)) <=>
                          \/ RankOf(label) = 3 /\ RankOf(l) = 2 /\ p = 0 /\ q = Scale
                          \/ RankOf(label) = 2 /\ RankOf(l) = 1 /\ p = 0 /\ q = 0

\* a positive answer of probability 0 evaluated: its base, 0.8, is the base
\* of a neutral answer of probability 1
C20_Witness ==
    /\ epc = "local"
    /\ elocal.m.sentiment = [label |-> "POSITIVE", score |-> 0]
    /\ BaseOf("POSITIVE", 0) = BaseOf("neutral", Scale)
    /\ elocal.rec.confidence_score
          = Round2(score_confidence(elocal.rec.user_answer, elocal.m.sentiment))

-----------------------------------------------------------------------------
(* utils/evaluation.py: the prompt of gpt_evaluate_answer (lines 250-257).   *)
(* A text is held here by its length in characters.                          *)

IdealBudget == 800
AnswerBudget == 800

\* s[:k] of a text of n characters
SliceTo(n, k) == IF n < k THEN n ELSE k

\* user_prompt: the three texts the f-string puts into the prompt
user_prompt(question, ideal_answer, user_answer) ==
    [question |-> question,
     ideal_answer |-> SliceTo(ideal_answer, IdealBudget),
     user_answer |-> SliceTo(user_answer, AnswerBudget)]

\* gpt_evaluate_answer builds the prompt it sends (lines 250-266)
BuildPrompt(question, ideal_answer, user_answer) ==
    /\ qpc = "idle"
    /\ qin' = [question |-> question, ideal_answer |-> ideal_answer,
               user_answer |-> user_answer]
    /\ qprompt' = user_prompt(question, ideal_answer, user_answer)
    /\ qpc' = "sent"
    /\ UNCHANGED notPrompt

MaxTextLen == 5000

TextLens == {0, 1, IdealBudget - 1, IdealBudget, IdealBudget + 1, MaxTextLen}

PromptNext ==
    \E q \in TextLens, i \in TextLens, u \in TextLens : BuildPrompt(q, i, u)

SpecPrompt == Init /\ [][PromptNext]_vars

\* C21: each of the three input texts inside the prompt is cut to the fixed
\* character budget, however long the caller's text is.
C21_PromptInputsBounded ==
    (qpc = "sent") =>
        /\ qprompt.question <= IdealBudget
        /\ qprompt.ideal_answer <= IdealBudget
        /\ qprompt.user_answer <= AnswerBudget

-----------------------------------------------------------------------------
(* C22 *)

\* the sentence of a band: above 80, else above 60, else the lowest
BandSentence(score, high, mid, low) ==
    IF score > Pts(80) THEN high ELSE IF score > Pts(60) THEN mid ELSE low

\* the text made of the given sentences, one space between two of them
Sentences(parts) == JoinSp([i \in 1..Len(parts) |-> <<parts[i]>>])

\* C22: the feedback_text of the local path is one relevance sentence (the
\* band of the relevance score: above 80, else above 60, else the lowest),
\* then one confidence sentence chosen the same way, then the nudge to expand
\* exactly when the answer has fewer than 30 whitespace-separated words; an
\* empty answer always gets the nudge.
C22_FeedbackBands ==
    (epc = "local") =>
        LET rec == elocal.rec
            r == BandSentence(score_relevance(elocal.m.emb),
                              FbRelevantHigh, FbRelevantMid, FbRelevantLow)
            c == BandSentence(score_confidence(rec.user_answer, elocal.m.sentiment),
                              FbConfidentHigh, FbConfidentMid, FbConfidentLow)
            short == Len(Split(rec.user_answer)) < 30
        IN  /\ rec.feedback_text
                   = Sentences(IF short THEN <<r, c, FbExpand>> ELSE <<r, c>>)
            /\ (rec.user_answer = <<>>) => short

\* an answer of exactly 30 words, a relevance in the middle band and a
\* confidence in the highest: two sentences and no nudge
C22_Witness ==
    /\ epc = "local"
    /\ Len(Split(elocal.rec.user_answer)) = 30
    /\ elocal.rec.feedback_text = Sentences(<<FbRelevantMid, FbConfidentHigh>>)

-----------------------------------------------------------------------------
(* C23 *)

\* every bullet list of a report: <<section, key>>
ListFields ==
    {<<"know_all_about_them", k>> : k \in KnowKeys}
        \cup {<<"perfect_fit_map", "top_strengths">>}
        \cup {<<"behavioral_practice", "questions">>, <<"technical_prep", "questions">>,
              <<"technical_prep", "key_concepts">>, <<"technical_prep", "red_flags">>}
        \cup {<<"improvement_zone", k>> : k \in ImproveKeys}
        \cup {<<"impress_them_back", k>> : k \in ImpressKeys}

\* what _normalize_prep_report made of the upstream document of this call
Normalized ==
    _normalize_prep_report(UpstreamDoc, args.candidate_name,
                           ModeHint(args.company_name, args.job_description))

\* a non-empty string with no blank at either end
TrimmedString(x) == IsStr(x) /\ x.s # <<>> /\ Strip(x.s) = x.s

\* C23: after _normalize_prep_report every section is a mapping and every
\* bullet list is a list of non-empty, trimmed strings: an absent or null list
\* is the empty list, the lists of a section that is not a dict are empty, a
\* lone scalar is a list of one entry, entries that are not strings are
\* stringified, and null or blank entries are dropped.
C23_CoercedShape ==
    (Returned /\ result.path = "gpt") =>
        /\ \A sec \in SectionKeys : IsDict(Normalized.d[sec])
        /\ \A f \in ListFields :
              LET out == Normalized.d[f[1]].d[f[2]]
                  sv == Get(UpstreamDoc, f[1])
                  raw == RawField(f[1], f[2])
              IN  /\ out.t = "list"
                  /\ \A i \in 1..Len(out.l) : TrimmedString(out.l[i])
                  /\ ~IsDict(sv) => out.l = <<>>
                  /\ raw = JNull => out.l = <<>>
                  /\ raw.t \notin {"null", "list"} =>
                        out.l = IF Strip(StrOf(raw)) = <<>> THEN <<>>
                                ELSE <<JStr(Strip(StrOf(raw)))>>
                  /\ raw.t = "list" =>
                        out.l = SelectSeq(
                                    [i \in 1..Len(raw.l) |->
                                        IF raw.l[i] = JNull THEN EmptyStr
                                        ELSE JStr(Strip(StrOf(raw.l[i])))],
                                    LAMBDA x : x # EmptyStr)

\* the number 7 given where a list belongs: the list of the one string "7"
C23_Witness ==
    /\ pc = "returned"
    /\ result.path = "gpt"
    /\ UpstreamDoc = CoerceDoc(JNum(7))
    /\ Normalized.d["improvement_zone"].d["skill_gaps"].l = <<JStr(<<"7">>)>>
    /\ result.report.d["improvement_zone"].d["skill_gaps"].l = <<JStr(<<"7">>)>>

-----------------------------------------------------------------------------
(* app.py: the mock interview.  Flask keeps the session in a signed cookie   *)
(* and writes it back with every response, the error responses included;    *)
(* one request is handled at a time.                                         *)

TotalQuestions == 10

\* session.get(k, default)
SessionGet(sess, k, default) == IF sess[k] = Absent THEN default ELSE sess[k]

\* login_required: the redirect to the login page
LoginRedirect(path) == [status |-> 302, location |-> <<"/login?next=", path>>]

Raise(e) == [kind |-> "raise", e |-> e]
Content(c) == [kind |-> "content", content |-> c]

DefaultIntro(org, role) ==
    <<"Hi, I am Fabio, I work at ">> \o org
        \o <<", and I am excited to interview you for the ">> \o role \o <<" role today.">>

\* generate_mock_interview_question; up is what the chat completion did
generate_mock_interview_question(job_title, company, history, up) ==
    LET role == Or(job_title, JStr(<<"software engineer">>)).s
        org == Or(company, JStr(<<"a top tech company">>)).s
    IN  IF up.kind = "raise" THEN Raised(up.e)
        ELSE IF ~IsStr(up.content) /\ up.content.t # "json"
        THEN Raised("'NoneType' object has no attribute 'strip'")
        ELSE LET parsed ==
                     IF up.content.t = "json" /\ IsDict(up.content.v)
                            /\ Or(Get(up.content.v, "intro"), EmptyStr).t = "str"
                            /\ Or(Get(up.content.v, "question"), EmptyStr).t = "str"
                     THEN [intro |-> Strip(Or(Get(up.content.v, "intro"), EmptyStr).s),
                           question |-> Strip(Or(Get(up.content.v, "question"), EmptyStr).s)]
                     ELSE [intro |-> DefaultIntro(org, role),
                           question |-> IF IsStr(up.content) THEN Strip(up.content.s)
                                        ELSE Strip(StrOf(up.content.v))]
                 intro == IF parsed.intro = <<>> /\ history = <<>>
                          THEN DefaultIntro(org, role) ELSE parsed.intro
             IN  [ok |-> TRUE, intro |-> intro, question |-> parsed.question]

\* the call of generate_mock_interview_question, as the upstream saw it
GenerateCall(sess, history) ==
    [count |-> sess.mock_question_count, history |-> Len(history)]

\* lines 1496-1516 with no test of the count against the total
AnswerTail_NoLimit(sess, question_text, answer, rec, up) ==
    LET history == SessionGet(sess, "mock_history", EmptyList).l
                       \o <<[question |-> question_text, answer |-> answer,
                             evaluation |-> rec]>>
        s1 == [sess EXCEPT !.mock_history = JList(history)]
        current_count == SessionGet(sess, "mock_question_count", JNum(1)).n
        s2 == [s1 EXCEPT !.mock_question_count = JNum(current_count + 1)]
        g == generate_mock_interview_question(
                 SessionGet(sess, "mock_job_title", EmptyStr),
                 SessionGet(sess, "mock_company", EmptyStr), history, up)
    IN  IF ~g.ok
        THEN [ok |-> FALSE, err |-> g.err, session |-> s2,
              calls |-> <<GenerateCall(s2, history)>>]
        ELSE [ok |-> TRUE, session |-> s2,
              calls |-> <<GenerateCall(s2, history)>>, done |-> FALSE,
              next_intro |-> g.intro, next_question |-> g.question,
              question_number |-> current_count + 1]

\* lines 1496-1516 and 1694-1714: the history entry, the count, the next
\* question
AnswerTail(sess, question_text, answer, rec, up) ==
    LET history == SessionGet(sess, "mock_history", EmptyList).l
                       \o <<[question |-> question_text, answer |-> answer,
                             evaluation |-> rec]>>
        s1 == [sess EXCEPT !.mock_history = JList(history)]
        current_count == SessionGet(sess, "mock_question_count", JNum(1)).n
    IN  IF current_count >= TotalQuestions
        THEN [ok |-> TRUE, session |-> s1, calls |-> <<>>, done |-> TRUE,
              next_intro |-> <<>>, next_question |-> <<>>,
              question_number |-> current_count]
        ELSE LET s2 == [s1 EXCEPT !.mock_question_count = JNum(current_count + 1)]
                 g == generate_mock_interview_question(
                          SessionGet(sess, "mock_job_title", EmptyStr),
                          SessionGet(sess, "mock_company", EmptyStr), history, up)
             IN  IF ~g.ok
                 THEN [ok |-> FALSE, err |-> g.err, session |-> s2,
                       calls |-> <<GenerateCall(s2, history)>>]
                 ELSE [ok |-> TRUE, session |-> s2,
                       calls |-> <<GenerateCall(s2, history)>>, done |-> FALSE,
                       next_intro |-> g.intro, next_question |-> g.question,
                       question_number |-> current_count + 1]

\* the body of the 200 response of the two answer routes
AnswerBody(transcript, rec, tail) ==
    [transcript |-> transcript, evaluation |-> rec, done |-> tail.done,
     next_intro |-> tail.next_intro, next_question |-> tail.next_question,
     question_number |-> tail.question_number, total_questions |-> TotalQuestions]

MockRow(question_text, answer, transcript, rec, user_id) ==
    [question_source |-> "mock",
     user_id |-> user_id,
     raw_question_text |-> question_text,
     answer_text |-> answer,
     is_voice |-> Truthy(transcript),
     transcript |-> transcript,
     relevance_score |-> rec.relevance_score,
     confidence_score |-> rec.confidence_score,
     final_score |-> rec.final_score,
     feedback_text |-> IF rec.feedback_text # <<>> THEN JStr(rec.feedback_text) ELSE JNull]

\* gpt_evaluate_answer; up is what the chat completion did
gpt_evaluate_answer(question, user_answer, up) ==
    IF up.kind = "raise" THEN Raised(up.e) ELSE RubricRecord(question, user_answer, up.content)

\* (form.get("question") or "").strip() or "Mock interview question"
QuestionText(q) ==
    LET s == Strip(Or(q, EmptyStr).s)
    IN  IF s # <<>> THEN s ELSE <<"Mock interview question">>

MockTextError(e) ==
    JsonResponse(500, [error |-> <<"Error processing mock interview text answer: ", e>>])

MockAudioError(e) ==
    JsonResponse(500, [error |-> <<"Error processing mock interview audio: ", e>>])

MaxMockRequests == 12

\* a user logs in: session["user_id"]
MockLogin ==
    /\ msession.user_id = Absent
    /\ apc = "idle"
    /\ jreq = JNull
    /\ msession' = [msession EXCEPT !.user_id = JNum(1)]
    /\ UNCHANGED <<mreq, mresp, mcalls, msaved, mtmp, mserved, notMock>>

\* a mock-interview request from a session with no user
MockNoLogin(route) ==
    /\ msession.user_id = Absent
    /\ mserved < MaxMockRequests
    /\ mserved' = mserved + 1
    /\ mreq' = [route |-> route]
    /\ mresp' = LoginRedirect(route)
    /\ mcalls' = <<>>
    /\ msaved' = JNull
    /\ mtmp' = "none"
    /\ UNCHANGED <<msession, notMock>>

\* POST /api/mock_interview_start
mock_interview_start(data, up) ==
    /\ msession.user_id # Absent
    /\ mserved < MaxMockRequests
    /\ mserved' = mserved + 1
    /\ mreq' = [route |-> "/api/mock_interview_start", data |-> data]
    /\ LET job_title == JStr(Strip(GetOr(data, "job_title", EmptyStr).s))
           company == JStr(Strip(GetOr(data, "company", EmptyStr).s))
           s0 == [msession EXCEPT !.mock_job_title = job_title,
                                  !.mock_company = company,
                                  !.mock_question_count = JNum(0),
                                  !.mock_history = EmptyList]
           g == generate_mock_interview_question(job_title, company, <<>>, up)
       IN  /\ mcalls' = <<GenerateCall(s0, <<>>)>>
           /\ IF ~g.ok
              THEN /\ msession' = s0
                   /\ mresp' = InternalServerError
              ELSE /\ msession' = [s0 EXCEPT !.mock_question_count = JNum(1)]
                   /\ mresp' = JsonResponse(200,
                                  [intro |-> g.intro, question |-> g.question,
                                   question_number |-> 1,
                                   total_questions |-> TotalQuestions])
    /\ msaved' = JNull
    /\ mtmp' = "none"
    /\ UNCHANGED notMock

\* POST /api/mock_interview_next_question
mock_interview_next_question(up) ==
    /\ msession.user_id # Absent
    /\ mserved < MaxMockRequests
    /\ mserved' = mserved + 1
    /\ mreq' = [route |-> "/api/mock_interview_next_question"]
    /\ LET history == SessionGet(msession, "mock_history", EmptyList).l
           count == SessionGet(msession, "mock_question_count", JNum(0)).n
           g == generate_mock_interview_question(
                    SessionGet(msession, "mock_job_title", EmptyStr),
                    SessionGet(msession, "mock_company", EmptyStr), history, up)
       IN  IF count >= TotalQuestions
           THEN /\ mresp' = JsonResponse(200, [done |-> TRUE,
                                               message |-> <<"Interview complete.">>])
                /\ mcalls' = <<>>
                /\ msession' = msession
           ELSE /\ mcalls' = <<GenerateCall(msession, history)>>
                /\ IF ~g.ok
                   THEN /\ mresp' = InternalServerError
                        /\ msession' = msession
                   ELSE /\ mresp' = JsonResponse(200,
                                       [intro |-> g.intro, question |-> g.question,
                                        question_number |-> count + 1,
                                        total_questions |-> TotalQuestions])
                        /\ msession' = [msession EXCEPT
                                           !.mock_question_count = JNum(count + 1)]
    /\ msaved' = JNull
    /\ mtmp' = "none"
    /\ UNCHANGED notMock

\* POST /api/mock_interview_answer_text; rubric and up are what the two chat
\* completions did
mock_interview_answer_text(data, rubric, up, commit_ok) ==
    /\ msession.user_id # Absent
    /\ mserved < MaxMockRequests
    /\ mserved' = mserved + 1
    /\ mreq' = [route |-> "/api/mock_interview_answer_text", data |-> data]
    /\ mtmp' = "none"
    /\ LET answer_text == Strip(Or(Get(data, "answer_text"), EmptyStr).s)
           question_text == QuestionText(Get(data, "question"))
           ev == gpt_evaluate_answer(question_text, answer_text, rubric)
           tail == AnswerTail(msession, question_text, answer_text, ev.rec, up)
       IN  IF answer_text = <<>>
           THEN /\ mresp' = JsonResponse(400, [error |-> <<"No answer text provided">>])
                /\ UNCHANGED <<msession>>
                /\ mcalls' = <<>>
                /\ msaved' = JNull
           ELSE IF ~ev.ok
           THEN /\ mresp' = MockTextError(ev.err)
                /\ UNCHANGED <<msession>>
                /\ mcalls' = <<>>
                /\ msaved' = JNull
           ELSE /\ msession' = tail.session
                /\ mcalls' = tail.calls
                /\ IF ~tail.ok
                   THEN /\ mresp' = MockTextError(tail.err)
                        /\ msaved' = JNull
                   ELSE /\ mresp' = JsonResponse(200, AnswerBody(answer_text, ev.rec, tail))
                        /\ msaved' = save_answer_to_db(
                                         MockRow(question_text, answer_text, JNull, ev.rec,
                                                 msession.user_id), commit_ok).saved
    /\ UNCHANGED notMock

\* POST /api/mock_interview_answer; stt is what the transcription did, rm_ok
\* whether os.remove succeeded
mock_interview_answer(form, stt, rubric, up, commit_ok, rm_ok) ==
    /\ msession.user_id # Absent
    /\ mserved < MaxMockRequests
    /\ mserved' = mserved + 1
    /\ mreq' = [route |-> "/api/mock_interview_answer", form |-> form]
    /\ LET question_text == QuestionText(form.question)
           transcript_text == stt.content
           ev == gpt_evaluate_answer(question_text, transcript_text, rubric)
           tail == AnswerTail(msession, question_text, transcript_text, ev.rec, up)
       IN  IF ~form.has_file
           THEN /\ mresp' = JsonResponse(400, [error |-> <<"No audio file received">>])
                /\ UNCHANGED <<msession>>
                /\ mcalls' = <<>>
                /\ msaved' = JNull
                /\ mtmp' = "none"
           ELSE IF form.filename = ""
           THEN /\ mresp' = JsonResponse(400, [error |-> <<"Empty audio filename">>])
                /\ UNCHANGED <<msession>>
                /\ mcalls' = <<>>
                /\ msaved' = JNull
                /\ mtmp' = "none"
           ELSE /\ mtmp' = AfterFinally(rm_ok)
                /\ IF stt.kind = "raise"
                   THEN /\ mresp' = MockAudioError(stt.e)
                        /\ UNCHANGED <<msession>>
                        /\ mcalls' = <<>>
                        /\ msaved' = JNull
                   ELSE IF ~ev.ok
                   THEN /\ mresp' = MockAudioError(ev.err)
                        /\ UNCHANGED <<msession>>
                        /\ mcalls' = <<>>
                        /\ msaved' = JNull
                   ELSE /\ msession' = tail.session
                        /\ mcalls' = tail.calls
                        /\ IF ~tail.ok
                           THEN /\ mresp' = MockAudioError(tail.err)
                                /\ msaved' = JNull
                           ELSE /\ mresp' = JsonResponse(200,
                                               AnswerBody(transcript_text, ev.rec, tail))
                                /\ msaved' = save_answer_to_db(
                                                 MockRow(question_text, transcript_text,
                                                         JStr(transcript_text), ev.rec,
                                                         msession.user_id), commit_ok).saved
    /\ UNCHANGED notMock

MockRoutes ==
    {"/api/mock_interview_start", "/api/mock_interview_answer",
     "/api/mock_interview_answer_text", "/api/mock_interview_next_question"}

StartData == {EmptyDict, JDict([job_title |-> JStr(<<SP, "Data Engineer">>),
                                company |-> JStr(<<"Acme", SP>>)])}

GoodRubric ==
    Content(JsonText(Obj([relevance_score |-> JNum(Pts(62)), confidence_score |-> JNum(Pts(70)),
                          strengths |-> JList(<<JStr(<<"Clear structure">>)>>)])))

RubricOutcomes == {Raise("Request timed out."), Content(NotJson), GoodRubric}

QuestionOutcomes ==
    {Raise("Request timed out."),
     Content(JsonText(Obj([intro |-> EmptyStr,
                           question |-> JStr(<<"Why", SP, "this", SP, "role?">>)])))}

TextData ==
    {EmptyDict, JDict([answer_text |-> JStr(<<SP>>)]),
     JDict([answer_text |-> JStr(<<"Because", SP, "I", SP, "build", SP, "things.">>)])}

MockAudioForms ==
    [has_file : BOOLEAN, filename : {"", "answer.webm"}, question : {EmptyStr}]

SttOutcomes ==
    {Raise("Connection error."),
     Content(<<"Because", SP, "I", SP, "build", SP, "things.">>)}

MockNext ==
    \/ MockLogin
    \/ \E route \in MockRoutes : MockNoLogin(route)
    \/ \E data \in StartData, up \in QuestionOutcomes : mock_interview_start(data, up)
    \/ \E up \in QuestionOutcomes : mock_interview_next_question(up)
    \/ \E data \in TextData, rubric \in RubricOutcomes, up \in QuestionOutcomes,
          ok \in BOOLEAN :
           mock_interview_answer_text(data, rubric, up, ok)
    \/ \E form \in MockAudioForms, stt \in SttOutcomes, rubric \in RubricOutcomes,
          up \in QuestionOutcomes, ok \in BOOLEAN, rm \in BOOLEAN :
           mock_interview_answer(form, stt, rubric, up, ok, rm)

SpecMock == Init /\ [][MockNext]_vars

-----------------------------------------------------------------------------
(* C24 *)

AnswerRoutes == {"/api/mock_interview_answer", "/api/mock_interview_answer_text"}

\* the count is within 0..10 and no response numbers a question above 10
CountInRange ==
    /\ msession.mock_question_count # Absent =>
           msession.mock_question_count.n \in 0..TotalQuestions
    /\ (mresp # JNull /\ "json" \in DOMAIN mresp /\ "question_number" \in DOMAIN mresp.json) =>
           mresp.json.question_number \in 1..TotalQuestions

\* a request that finds the count at 10: the answer routes and the
\* next-question route ask for no further question and leave the count alone
AtTenNoQuestion ==
    (/\ mserved' # mserved
     /\ msession.mock_question_count = JNum(TotalQuestions)
     /\ mreq'.route \in AnswerRoutes \cup {"/api/mock_interview_next_question"}) =>
        /\ mcalls' = <<>>
        /\ msession'.mock_question_count = JNum(TotalQuestions)
        /\ mresp'.status = 200 =>
              /\ mresp'.json.done = TRUE
              /\ mreq'.route \in AnswerRoutes =>
                    /\ mresp'.json.next_question = <<>>
                    /\ mresp'.json.question_number = TotalQuestions
              /\ mreq'.route = "/api/mock_interview_next_question" =>
                    mresp'.json.message = <<"Interview complete.">>

\* C24: after any sequence of start, answer, answer_text and next_question
\* requests in one session the mock_question_count is within 0..10, no
\* response carries a question_number above 10, and a request that finds the
\* count at 10 generates no further question: the answer routes report done,
\* the next-question route reports the interview complete.  (A start request
\* begins a new interview: it sets the count to 0 before it asks.)
C24_TenQuestions == []CountInRange /\ [][AtTenNoQuestion]_vars

\* the eleventh request of an interview: an answer given after the tenth
\* question, reported done with no next question
C24_Witness ==
    /\ mreq # JNull
    /\ mreq.route = "/api/mock_interview_answer_text"
    /\ mresp.status = 200
    /\ mresp.json.done = TRUE
    /\ mresp.json.question_number = TotalQuestions
    /\ mcalls = <<>>
    /\ msession.mock_question_count = JNum(TotalQuestions)
    /\ Len(msession.mock_history.l) >= 1

-----------------------------------------------------------------------------
(* C25 *)

\* C25: when mock_interview_answer or mock_interview_answer_text ends in its
\* error response, the session's mock_history and mock_question_count are
\* what they were before the request.
C25_AnswerFailsAtomically ==
    [][(/\ mserved' # mserved
        /\ mreq'.route \in AnswerRoutes
        /\ mresp'.status \in {400, 500}) =>
           /\ msession'.mock_history = msession.mock_history
           /\ msession'.mock_question_count = msession.mock_question_count]_vars

-----------------------------------------------------------------------------
(* app.py: /next_question and get_next_question, one session *)

BankSize == 4
MaxBankCalls == 2 * BankSize + 1

\* load_questions(): the bank, its ids distinct
QuestionBank == [i \in 1..BankSize |-> [id |-> 100 + i, question |-> <<"Question ", ToString(i)>>]]

\* str(q["id"])
StrId(q) == ToString(q.id)

InList(x, l) == \E i \in 1..Len(l) : l[i] = x

\* available that is the whole bank whatever was used
AvailableAll(questions, used_ids) == questions

\* [q for q in questions if str(q["id"]) not in used_ids]
Available(questions, used_ids) ==
    SelectSeq(questions, LAMBDA q : ~InList(StrId(q), used_ids))

\* POST /next_question; choice is the draw of random.choice
next_question(choice) ==
    /\ Len(nlog) < MaxBankCalls
    /\ LET questions == QuestionBank
           used0 == IF used_question_ids = Absent THEN <<>> ELSE used_question_ids.l
           available0 == Available(questions, used0)
           used_ids == IF available0 = <<>> THEN <<>> ELSE used0
           available == IF available0 = <<>> THEN questions ELSE available0
       IN  IF questions = <<>>
           THEN /\ nresp' = JsonResponse(400, [error |-> <<"No questions available.">>])
                /\ UNCHANGED <<used_question_ids, nlog>>
           ELSE /\ choice \in 1..Len(available)
                /\ LET question == available[choice]
                   IN  /\ used_question_ids' = JList(Append(used_ids, StrId(question)))
                       /\ nresp' = JsonResponse(200, question)
                       /\ nlog' = Append(nlog, question.id)
    /\ UNCHANGED notBank

BankNext == \E choice \in 1..BankSize : next_question(choice)

SpecBank == Init /\ [][BankNext]_vars

-----------------------------------------------------------------------------
(* C26 *)

BankIds == {QuestionBank[i].id : i \in 1..BankSize}

Distinct(l) == \A i, j \in 1..Len(l) : i # j => l[i] # l[j]

\* block b of the returned questions: calls b * N + 1 .. b * N + N
Block(b) == SubSeq(nlog, b * BankSize + 1, Min((b + 1) * BankSize, Len(nlog)))

\* the questions of every block of N calls are distinct, and the used list
\* holds the ids of the block in progress
BlocksDistinct ==
    /\ \A b \in 0..(MaxBankCalls \div BankSize) : Distinct(Block(b))
    /\ used_question_ids # Absent =>
           /\ Distinct(used_question_ids.l)
           /\ \A i \in 1..Len(used_question_ids.l) :
                  \E q \in BankIds : used_question_ids.l[i] = ToString(q)

\* one call: the question returned is not in the used list, which grows by
\* it; the list is cleared only when it holds all N ids
ServesUnused ==
    (nlog' # nlog) =>
        LET used == IF used_question_ids = Absent THEN <<>> ELSE used_question_ids.l
            got == ToString(nlog'[Len(nlog')])
        IN  IF Len(used) = BankSize
            THEN used_question_ids'.l = <<got>>
            ELSE /\ ~InList(got, used)
                 /\ used_question_ids'.l = Append(used, got)

\* C26: with a bank of N >= 1 questions of distinct ids, successive
\* get_next_question calls in one session never return a question whose id
\* is in used_question_ids; the used list is cleared only when all N were
\* served; every block of N calls from an empty used list returns N distinct
\* questions.
C26_NoRepeatInBlock == []BlocksDistinct /\ [][ServesUnused]_vars

\* two full blocks served and a third begun: the list cleared twice
C26_Witness ==
    /\ Len(nlog) = 2 * BankSize + 1
    /\ Len(used_question_ids.l) = 1
    /\ nlog[BankSize + 1] = nlog[BankSize]

-----------------------------------------------------------------------------
(* app.py: update_streak_for_user, for one user.  Each call runs in its own  *)
(* request, with its own database session; a statement sees what was         *)
(* committed before it.  The date changes between calls.                     *)

\* uq_user_streak_date with no effect
NoConstraint(rows, day) == FALSE

\* uq_user_streak_date: the insert of a second row for the date fails
UniqueViolation(rows, day) == rows[day] >= 1

\* lines 445-450: now, today, the cutoff
StreakBegin(t) ==
    /\ scall[t].pc = "idle"
    /\ scall' = [scall EXCEPT ![t] =
                     IF slate THEN CallIdle ELSE [pc |-> "today", today |-> sday]]
    /\ UNCHANGED <<sday, slate, suser, srows, notStreak>>

\* lines 452-456: existing_today
QueryToday(t) ==
    /\ scall[t].pc = "today"
    /\ scall' = [scall EXCEPT ![t] =
                     IF srows[scall[t].today] >= 1 THEN CallIdle
                     ELSE [pc |-> "yesterday", today |-> scall[t].today]]
    /\ UNCHANGED <<sday, slate, suser, srows, notStreak>>

\* lines 458-461: yesterday_kept
QueryYesterday(t) ==
    /\ scall[t].pc = "yesterday"
    /\ scall' = [scall EXCEPT ![t] =
                     [pc |-> "user", today |-> scall[t].today,
                      yesterday_kept |-> srows[scall[t].today - 1] >= 1]]
    /\ UNCHANGED <<sday, slate, suser, srows, notStreak>>

\* lines 463-478: the new streak_count and longest_streak of the user object
ComputeStreak(t) ==
    /\ scall[t].pc = "user"
    /\ LET streak_count == IF scall[t].yesterday_kept THEN suser.streak_count + 1 ELSE 1
           longest_streak == IF streak_count > suser.longest_streak THEN streak_count
                             ELSE suser.longest_streak
       IN  scall' = [scall EXCEPT ![t] =
                        [pc |-> "commit", today |-> scall[t].today,
                         streak_count |-> streak_count,
                         longest_streak |-> longest_streak]]
    /\ UNCHANGED <<sday, slate, suser, srows, notStreak>>

\* lines 480-483: db.session.commit(), or the rollback when it raises
StreakCommit(t, commit_ok) ==
    /\ scall[t].pc = "commit"
    /\ IF commit_ok /\ ~UniqueViolation(srows, scall[t].today)
       THEN /\ suser' = [streak_count |-> scall[t].streak_count,
                         longest_streak |-> scall[t].longest_streak]
            /\ srows' = [srows EXCEPT ![scall[t].today] = @ + 1]
       ELSE UNCHANGED <<suser, srows>>
    /\ scall' = [scall EXCEPT ![t] = CallIdle]
    /\ UNCHANGED <<sday, slate, notStreak>>

\* the clock reaches 20:00
Evening ==
    /\ ~slate
    /\ slate' = TRUE
    /\ UNCHANGED <<sday, suser, srows, scall, notStreak>>

\* the date changes, no call in progress
Midnight ==
    /\ sday < MaxDays
    /\ \A t \in Callers : scall[t] = CallIdle
    /\ sday' = sday + 1
    /\ slate' = FALSE
    /\ UNCHANGED <<suser, srows, scall, notStreak>>

StreakNext ==
    \/ \E t \in Callers : StreakBegin(t)
    \/ \E t \in Callers : QueryToday(t)
    \/ \E t \in Callers : QueryYesterday(t)
    \/ \E t \in Callers : ComputeStreak(t)
    \/ \E t \in Callers, ok \in BOOLEAN : StreakCommit(t, ok)
    \/ Evening
    \/ Midnight

SpecStreak == Init /\ [][StreakNext]_vars

-----------------------------------------------------------------------------
(* C27 *)

\* at most one 'kept' row for a date, and longest_streak >= streak_count
OneRowPerDay ==
    /\ \A d \in 0..MaxDays : srows[d] <= 1
    /\ suser.longest_streak >= suser.streak_count

\* the user or the rows change only by the first commit of the date, of a
\* call made before 20:00: streak_count is the previous count plus one if
\* the day before has a 'kept' row, and 1 otherwise
ChangesOncePerDay ==
    (suser' # suser \/ srows' # srows) =>
        /\ sday' = sday
        /\ srows[sday] = 0
        /\ srows' = [srows EXCEPT ![sday] = 1]
        /\ suser'.streak_count =
               IF srows[sday - 1] >= 1 THEN suser.streak_count + 1 ELSE 1
        /\ \E t \in Callers :
               /\ scall[t].pc = "commit"
               /\ scall[t].today = sday
               /\ scall'[t] = CallIdle

\* a call made at or after 20:00 goes no further than its test of the clock
LateCallsReturn ==
    \A t \in Callers : (slate /\ scall[t].pc = "idle") => scall'[t].pc = "idle"

\* C27: under any sequence or interleaving of update_streak_for_user calls
\* for one user on one day, streak_count changes at most once that day (to
\* the previous count plus one if the day before has a 'kept' row, otherwise
\* to 1), at most one 'kept' row exists for the day, calls at or after 20:00
\* change nothing, and longest_streak >= streak_count afterwards.
C27_StreakOncePerDay ==
    []OneRowPerDay /\ [][ChangesOncePerDay /\ LateCallsReturn]_vars

\* the third day of a streak, a second call of that day in progress after
\* the first one committed
C27_Witness ==
    /\ sday = 3
    /\ suser = [streak_count |-> 3, longest_streak |-> 3]
    /\ srows[3] = 1
    /\ \E t \in Callers : scall[t].pc = "commit" /\ scall[t].today = 3

-----------------------------------------------------------------------------
(* app.py: save_answer_to_db and prune_user_records on the answers table.    *)
(* One call is followed at a time; a row created later has a later           *)
(* created_at, which the id stands for.  The rows of the other users are     *)
(* the oldest of the table.                                                  *)

Keep == 20

RowsOf(rows, user_id) == {r \in rows : r.user_id = user_id}

\* order_by(created_at.desc()).offset(keep): the rows after the keep newest
Offset(rows, keep) ==
    {r \in rows : Cardinality({n \in rows : n.id > r.id}) >= keep}

\* prune_user_records with no filter on the user
prune_user_records_AnyUser(rows, user_id, keep, commit_ok) ==
    LET extra_rows == Offset(rows, keep)
    IN  IF ~Truthy(user_id) THEN [rows |-> rows, pruned |-> "no user"]
        ELSE IF extra_rows = {} THEN [rows |-> rows, pruned |-> "nothing"]
        ELSE IF commit_ok THEN [rows |-> rows \ extra_rows, pruned |-> "deleted"]
        ELSE [rows |-> rows, pruned |-> "failed"]

\* prune_user_records(model, user_id, keep); commit_ok is whether its commit
\* went through
prune_user_records(rows, user_id, keep, commit_ok) ==
    LET extra_rows == Offset(RowsOf(rows, user_id), keep)
    IN  IF ~Truthy(user_id) THEN [rows |-> rows, pruned |-> "no user"]
        ELSE IF extra_rows = {} THEN [rows |-> rows, pruned |-> "nothing"]
        ELSE IF commit_ok THEN [rows |-> rows \ extra_rows, pruned |-> "deleted"]
        ELSE [rows |-> rows, pruned |-> "failed"]

MaxSaves == 24
MaxOtherRows == 1
FirstUser == JNum(1)
SavingUsers == {FirstUser, JNum(2), JNull}

\* save_answer_to_db(..., user_id=user_id); insert_ok and prune_ok are
\* whether the two commits went through
SaveAnswer(user_id, insert_ok, prune_ok) ==
    /\ Cardinality(inserted) < MaxSaves
    /\ user_id # FirstUser =>
           /\ Cardinality(RowsOf(inserted, user_id)) < MaxOtherRows
           /\ RowsOf(inserted, FirstUser) = {}
    /\ LET answer == [id |-> Cardinality(inserted) + 1, user_id |-> user_id]
           out == prune_user_records(answers \cup {answer}, user_id, Keep, prune_ok)
       IN  IF insert_ok
           THEN /\ inserted' = inserted \cup {answer}
                /\ answers' = out.rows
                /\ lastsave' = [user_id |-> user_id, added |-> TRUE, pruned |-> out.pruned]
           ELSE /\ UNCHANGED <<answers, inserted>>
                /\ lastsave' = [user_id |-> user_id, added |-> FALSE, pruned |-> "not run"]
    /\ UNCHANGED notRows

RowsNext ==
    \E user_id \in SavingUsers, insert_ok \in BOOLEAN, prune_ok \in BOOLEAN :
        SaveAnswer(user_id, insert_ok, prune_ok)

SpecRows == Init /\ [][RowsNext]_vars

-----------------------------------------------------------------------------
(* C28 *)

\* the keep most recently created of the rows
Newest(rows, keep) == rows \ Offset(rows, keep)

-----------------------------------------------------------------------------
(* app.py: the saved prep and resume reports, asked for by one browser *)

\* the users table; the third id is of an account deleted after its login
UserIds == {1, 2}
SessionIds == {1, 2, 3}

\* get_current_user
get_current_user(sess) ==
    IF sess = Absent \/ ~Truthy(sess) THEN JNull
    ELSE IF sess.n \in UserIds THEN sess ELSE JNull

\* .filter_by(id=report_id).first(), with no filter on the user
FirstById(rows, kind, report_id, user_id) ==
    LET found == {r \in rows : r.kind = kind /\ r.id = report_id}
    IN  IF found = {} THEN JNull ELSE CHOOSE r \in found : TRUE

\* Model.query.filter_by(id=report_id, user_id=user.id).first()
FirstOwned(rows, kind, report_id, user_id) ==
    LET found == {r \in rows : r.kind = kind /\ r.id = report_id /\ r.user_id = user_id}
    IN  IF found = {} THEN JNull ELSE CHOOSE r \in found : TRUE

NotFound == [status |-> 404, body |-> "Not Found"]

SavedRoutes ==
    {[name |-> "view_saved_prep_report", kind |-> "prep", path |-> "/custom_prep/report/"],
     [name |-> "download_saved_prep_report_pdf", kind |-> "prep",
      path |-> "/custom_prep/report/pdf/"],
     [name |-> "download_saved_prep_report", kind |-> "prep",
      path |-> "/custom_prep/report/download/"],
     [name |-> "view_saved_resume_report", kind |-> "resume", path |-> "/resume_check/report/"],
     [name |-> "download_saved_resume_report_pdf", kind |-> "resume",
      path |-> "/resume_check/report/pdf/"]}

\* what the route answers for the row it found
Rendered(route, row) ==
    CASE route.name \in {"view_saved_prep_report", "view_saved_resume_report"} ->
             [status |-> 200, content_type |-> "text/html",
              body |-> <<"saved_" \o route.kind \o "_report.html", row.report_json>>]
      [] route.name \in {"download_saved_prep_report_pdf",
                         "download_saved_resume_report_pdf"} ->
             [status |-> 200, content_type |-> "application/pdf",
              body |-> <<"pdf of saved_" \o route.kind \o "_report.html", row.report_json>>]
      [] OTHER ->
             [status |-> 200, content_type |-> "application/json",
              body |-> <<"json.dumps", Or(row.report_json, EmptyDict)>>]

\* login_required and the body of a saved-report route
SavedReportResponse(route, report_id, sess, rows) ==
    LET user == get_current_user(sess)
        row == FirstOwned(rows, route.kind, report_id, user)
    IN  IF sess = Absent \/ ~Truthy(sess) THEN LoginRedirect(route.path)
        ELSE IF user = JNull THEN LoginRedirect(route.path)
        ELSE IF row = JNull THEN NotFound
        ELSE Rendered(route, row)

MaxReports == 3

ReportKinds == {"prep", "resume"}

\* the report stored for a user, or for nobody: the content names its owner
ReportJson(kind, report_id, user_id) ==
    JDict([mode |-> JStr(<<kind, " report ", ToString(report_id), " of user ">>
                             \o StrOf(user_id))])

\* session["user_id"] = user.id
ReportLogin(user_id) ==
    /\ rsession = Absent
    /\ rsession' = JNum(user_id)
    /\ rreq' = JNull
    /\ rresp' = JNull
    /\ UNCHANGED <<reports, notReports>>

\* session.pop("user_id", None)
ReportLogout ==
    /\ rsession # Absent
    /\ rsession' = Absent
    /\ rreq' = JNull
    /\ rresp' = JNull
    /\ UNCHANGED <<reports, notReports>>

\* /custom_prep and /resume_check store the report with the id of the
\* current user, or with none
SaveReport(kind) ==
    /\ Cardinality(reports) < MaxReports
    /\ LET report_id == Cardinality({r \in reports : r.kind = kind}) + 1
           user_id == get_current_user(rsession)
       IN  reports' = reports \cup
                {[kind |-> kind, id |-> report_id, user_id |-> user_id,
                  report_json |-> ReportJson(kind, report_id, user_id)]}
    /\ rreq' = JNull
    /\ rresp' = JNull
    /\ UNCHANGED <<rsession, notReports>>

\* GET of a saved-report route
SavedReportRequest(route, report_id) ==
    /\ rreq' = [route |-> route, report_id |-> report_id, user_id |-> rsession]
    /\ rresp' = SavedReportResponse(route, report_id, rsession, reports)
    /\ UNCHANGED <<reports, rsession, notReports>>

ReportsNext ==
    \/ \E user_id \in SessionIds : ReportLogin(user_id)
    \/ ReportLogout
    \/ \E kind \in ReportKinds : SaveReport(kind)
    \/ \E route \in SavedRoutes, report_id \in 1..MaxReports :
           SavedReportRequest(route, report_id)

SpecReports == Init /\ [][ReportsNext]_vars

-----------------------------------------------------------------------------
(* C29 *)

\* the row a request names, whoever owns it
NamedRow == FirstById(reports, rreq.route.kind, rreq.report_id, JNull)

\* the rows of the requester
OwnRows(user_id) ==
    IF user_id = Absent THEN {} ELSE {r \in reports : r.user_id = user_id}

\* C29: a saved prep or resume report is rendered, exported as PDF or
\* downloaded as JSON only to a logged-in user whose id is the row's user_id;
\* any other requester gets the login redirect or a 404, and the response is
\* the one the requester would get if the rows of the other users did not
\* exist: nothing of their content is in it.
C29_OwnerOnly ==
    (rreq # JNull) =>
        /\ rresp.status = 200 =>
              /\ NamedRow # JNull
              /\ rreq.user_id = NamedRow.user_id
              /\ NamedRow.user_id # JNull
              /\ NamedRow.user_id.n \in UserIds
              /\ rresp = Rendered(rreq.route, NamedRow)
        /\ rresp.status # 200 =>
              /\ rresp \in {LoginRedirect(rreq.route.path), NotFound}
              /\ (rresp.status = 302) <=> (get_current_user(rreq.user_id) = JNull)
        /\ rresp = SavedReportResponse(rreq.route, rreq.report_id, rreq.user_id,
                                       OwnRows(rreq.user_id))

\* user 2 asks for the PDF of a prep report that user 1 saved: 404
C29_Witness ==
    /\ rreq # JNull
    /\ rreq.route.name = "download_saved_prep_report_pdf"
    /\ rreq.user_id = JNum(2)
    /\ NamedRow # JNull
    /\ NamedRow.user_id = JNum(1)
    /\ rresp = NotFound

-----------------------------------------------------------------------------
(* app.py: the /job_audio request.  One request with a temporary file is     *)
(* followed at a time.                                                       *)

JobQuestionText == <<"How would you shard this table?">>

JobAudioError(e) == JsonResponse(500, [error |-> <<"Error processing audio: ", e>>])

\* POST /job_audio; made is how far the temporary file got, stt and rubric
\* what the two upstream calls did, rm_ok whether os.remove succeeded
job_audio(form, made, stt, rubric, commit_ok, rm_ok) ==
    /\ jreq = JNull
    /\ apc = "idle"
    /\ msession.user_id = Absent
    /\ jreq' = form
    /\ LET ev == gpt_evaluate_answer(JobQuestionText, stt.content, rubric)
       IN  IF ~form.has_file
           THEN /\ jresp' = JsonResponse(400, [error |-> <<"No audio file received">>])
                /\ jtmp' = "none"
           ELSE IF form.filename = ""
           THEN /\ jresp' = JsonResponse(400, [error |-> <<"Empty audio filename">>])
                /\ jtmp' = "none"
           ELSE IF form.question_id = ""
           THEN /\ jresp' = JsonResponse(400, [error |-> <<"Missing question ID.">>])
                /\ jtmp' = "none"
           ELSE IF form.question_id # "known"
           THEN /\ jresp' = JsonResponse(400,
                                [error |-> <<"Job-specific question not found.">>])
                /\ jtmp' = "none"
           ELSE IF made = "no file"
           THEN /\ jresp' = JobAudioError("No space left on device")
                /\ jtmp' = "none"
           ELSE /\ jtmp' = AfterFinally(rm_ok)
                /\ IF made = "not saved"
                   THEN jresp' = JobAudioError("No space left on device")
                   ELSE IF stt.kind = "raise" THEN jresp' = JobAudioError(stt.e)
                   ELSE IF ~ev.ok THEN jresp' = JobAudioError(ev.err)
                   ELSE jresp' = JsonResponse(200,
                                     [html |-> <<"result.html",
                                                 [transcript |-> stt.content] @@ ev.rec>>])
    /\ UNCHANGED notJob

JobForms == [has_file : BOOLEAN, filename : {"", "answer.webm"},
             question_id : {"", "known", "unknown"}]

TempFileStages == {"no file", "not saved", "saved"}

\* the three routes that keep the upload in a temporary file
TempNext ==
    \/ \E form \in AudioForms, rm \in BOOLEAN : AudioRequest(form, rm)
    \/ \E e \in ClientErrors, rm \in BOOLEAN : TranscribeRaises(e, rm)
    \/ \E text \in Transcripts : TranscribeReturns(text)
    \/ \E e \in ClientErrors, rm \in BOOLEAN : AudioRubricRaises(e, rm)
    \/ \E c \in AudioContents, ok \in BOOLEAN, rm \in BOOLEAN : AudioRubricReturns(c, ok, rm)
    \/ \E form \in JobForms, made \in TempFileStages, stt \in SttOutcomes,
          rubric \in RubricOutcomes, ok \in BOOLEAN, rm \in BOOLEAN :
           job_audio(form, made, stt, rubric, ok, rm)
    \/ MockLogin
    \/ \E form \in MockAudioForms, stt \in SttOutcomes, rubric \in RubricOutcomes,
          up \in QuestionOutcomes, ok \in BOOLEAN, rm \in BOOLEAN :
           mock_interview_answer(form, stt, rubric, up, ok, rm)

SpecTemp == Init /\ [][TempNext]_vars

-----------------------------------------------------------------------------
(* C30 *)

\* the temporary files of the requests that have finished
FinishedTempFiles ==
    (IF apc = "done" THEN {atmp} ELSE {})
        \cup (IF jresp # JNull THEN {jtmp} ELSE {})
        \cup (IF mreq # JNull /\ mreq.route = "/api/mock_interview_answer" THEN {mtmp}
              ELSE {})

-----------------------------------------------------------------------------
(* C11 *)

\* utils/evaluation.py, the lazy singletons.  A thread's call of a getter is
\* four steps, other threads running between them: the test of the global,
\* the construction, the store to the global, the return of the global.
\* `if _sentence_model is None:` (line 68), `if _sentiment_pipeline is None:`
\* (line 80)
TestGlobal(t, g) ==
    /\ thr[t].pc \in {"idle", "returned"}
    /\ thr[t].calls < MaxCallsPerThread
    /\ thr' = [thr EXCEPT ![t] = [pc |-> IF singleton[g] = NoInstance THEN "construct"
                                         ELSE "return",
                                  getter |-> g, local |-> NoInstance, got |-> NoInstance,
                                  calls |-> thr[t].calls + 1]]
    /\ UNCHANGED <<singleton, built, notLoad>>

\* SentenceTransformer(...) (line 69); the tokenizer, the classifier and
\* pipeline(...) (lines 81-84): a new instance, its number the count of
\* constructions
Construct(t) ==
    /\ thr[t].pc = "construct"
    /\ built' = [built EXCEPT ![thr[t].getter] = @ + 1]
    /\ thr' = [thr EXCEPT ![t].local = built[thr[t].getter] + 1, ![t].pc = "store"]
    /\ UNCHANGED <<singleton, notLoad>>

\* the assignment to the global (lines 69, 84)
StoreGlobal(t) ==
    /\ thr[t].pc = "store"
    /\ singleton' = [singleton EXCEPT ![thr[t].getter] = thr[t].local]
    /\ thr' = [thr EXCEPT ![t].pc = "return"]
    /\ UNCHANGED <<built, notLoad>>

\* `return _sentence_model` (line 71), `return _sentiment_pipeline` (line 89)
ReturnGlobal(t) ==
    /\ thr[t].pc = "return"
    /\ thr' = [thr EXCEPT ![t].got = singleton[thr[t].getter], ![t].pc = "returned"]
    /\ UNCHANGED <<singleton, built, notLoad>>

LoadNext ==
    \/ \E t \in Threads, g \in Getters : TestGlobal(t, g)
    \/ \E t \in Threads : Construct(t)
    \/ \E t \in Threads : StoreGlobal(t)
    \/ \E t \in Threads : ReturnGlobal(t)

SpecLoad == Init /\ [][LoadNext]_vars

\* C11: each underlying model is constructed at most once, and all callers of
\* a getter receive the same instance.
C11_ConstructedOnce ==
    /\ \A g \in Getters : built[g] <= 1
    /\ \A t, u \in Threads :
          (thr[t].pc = "returned" /\ thr[u].pc = "returned"
             /\ thr[t].getter = thr[u].getter) => thr[t].got = thr[u].got

====
